---- MODULE Spec2Model ----
(***************************************************************************)
(* Model of the chrome-gemini side-panel chat client.                      *)
(*                                                                         *)
(* The ChatManager (chat.js) owns the message history and drives one       *)
(* backend stream per turn.  sendMessage is an async generator: the model  *)
(* keeps, for every call, the position of the manager's generator and of   *)
(* the backend's streamChat generator, and one action per synchronous      *)
(* block of code between two suspension points (await / yield).            *)
(*                                                                         *)
(* Strings are sequences of characters, so that string concatenation is    *)
(* \o.  null is the record Null.                                           *)
(***************************************************************************)
EXTENDS Integers, Sequences, FiniteSets, TLC

\* Number of sendMessage calls made on the manager.
MaxTurns == 2
\* Number of chunks the network delivers, all streams together.
MaxChunks == 2
\* Number of updateSettings calls whose save is pending at the same time.
MaxPendingSaves == 1

Turns == 1..MaxTurns

Null == [null |-> TRUE]

\* this.abortController = null: controllers are numbered by the turn that
\* created them, 0 is "no controller".
NoController == 0

\* fetch() is called without a signal in its init object.
NoSignal == 0

(***************************************************************************)
(* Settings (settings.js)                                                  *)
(***************************************************************************)
defaultSettings ==
    [backendType |-> "gemini",
     gemini |-> [apiUrl |-> "https://generativelanguage.googleapis.com/v1beta",
                 apiKey |-> "",
                 models |-> <<"gemini-2.5-flash", "gemini-2.5-pro", "gemini-2.0-flash">>],
     openai |-> [apiUrl |-> "http://localhost:11434/v1",
                 apiKey |-> "",
                 models |-> <<"llama3", "codellama", "mistral">>],
     currentModel |-> "",
     systemPrompt |-> "",
     enableSearch |-> TRUE,
     includeThinking |-> TRUE,
     autoIncludePage |-> TRUE]

\* The settings chrome.storage holds when the side panel starts.
GeminiUserSettings ==
    [defaultSettings EXCEPT !.gemini.apiKey = "g-key",
                            !.currentModel = "gemini-2.5-flash"]

\* The settings the user saves in the settings modal: another backend.
OpenAIUserSettings ==
    [defaultSettings EXCEPT !.backendType = "openai",
                            !.currentModel = "llama3",
                            !.systemPrompt = "Be helpful",
                            !.includeThinking = FALSE]

\* The values SettingsManager.load() resolves with in init().
StoredSettings == {GeminiUserSettings}

\* The values handed to updateSettings().
SettingsSet == {OpenAIUserSettings}

getBackendConfig(s) ==
    LET backendSettings == s[s.backendType]
    IN  [type |-> s.backendType,
         apiUrl |-> backendSettings.apiUrl,
         apiKey |-> backendSettings.apiKey,
         model |-> IF s.currentModel # "" THEN s.currentModel
                   ELSE backendSettings.models[1],
         models |-> backendSettings.models]

\* new GeminiBackend(config) / new OpenAIBackend(config): the AIBackend
\* constructor keeps apiUrl, apiKey and model.
createBackend(s) ==
    LET config == getBackendConfig(s)
    IN  [class |-> IF s.backendType = "gemini" THEN "GeminiBackend" ELSE "OpenAIBackend",
         apiUrl |-> config.apiUrl,
         apiKey |-> config.apiKey,
         model |-> config.model]

(***************************************************************************)
(* Chunks a backend yields.  text = <<>> stands for a chunk without text,  *)
(* extra names the side-channel payload of the chunk.                      *)
(***************************************************************************)
TextChunk(s, th) == [text |-> s, thought |-> th, extra |-> "none"]

\* gemini.js: {text, thought} per part with text, then {searchResults, groundingChunks}.
GeminiChunks ==
    {TextChunk(<<"a">>, FALSE), TextChunk(<<"b">>, FALSE), TextChunk(<<"t">>, TRUE),
     [text |-> <<>>, thought |-> FALSE, extra |-> "searchResults"]}

\* openai.js: {text, thought:false}, {toolCall}, {text, thought:true}.
OpenAIChunks ==
    {TextChunk(<<"a">>, FALSE), TextChunk(<<"b">>, FALSE), TextChunk(<<"t">>, TRUE),
     [text |-> <<>>, thought |-> FALSE, extra |-> "toolCall"]}

ChunksOf(backend) ==
    IF backend.class = "GeminiBackend" THEN GeminiChunks ELSE OpenAIChunks

(***************************************************************************)
(* Inputs of sendMessage                                                   *)
(***************************************************************************)
UserTexts == {<<"q">>}

Page1 == [title |-> <<"T">>, url |-> <<"u">>, content |-> <<"c">>]

PageContents == {Null, Page1}

(***************************************************************************)
(* Text on the wire (base.js).  A JavaScript string is the sequence of its *)
(* characters; the response body is a sequence of bytes, where an ASCII    *)
(* byte is written as its character and "C3" "A9" are the two bytes of the *)
(* character U+00E9.  An absent property of an object (undefined) is a     *)
(* field the record does not have.                                         *)
(***************************************************************************)
Has(obj, field) == field \in DOMAIN obj

\* The characters String.prototype.trim() strips.
Whitespace == {" ", "\t", "\r", "\n"}

RECURSIVE TrimStart(_)
TrimStart(s) == IF s # <<>> /\ Head(s) \in Whitespace THEN TrimStart(Tail(s)) ELSE s

RECURSIVE TrimEnd(_)
TrimEnd(s) ==
    IF s # <<>> /\ s[Len(s)] \in Whitespace THEN TrimEnd(SubSeq(s, 1, Len(s) - 1)) ELSE s

\* s.trim()
Trim(s) == TrimEnd(TrimStart(s))

\* s.startsWith(prefix)
startsWith(s, prefix) == Len(s) >= Len(prefix) /\ SubSeq(s, 1, Len(prefix)) = prefix

\* s.slice(n)
slice(s, n) == SubSeq(s, n + 1, Len(s))

RECURSIVE split(_, _)
\* s.split(sep) for a one-character separator: always at least one segment.
split(s, sep) ==
    IF \E i \in 1..Len(s) : s[i] = sep
    THEN LET i == CHOOSE i \in 1..Len(s) : s[i] = sep /\ \A j \in 1..(i - 1) : s[j] # sep
         IN  <<SubSeq(s, 1, i - 1)>> \o split(SubSeq(s, i + 1, Len(s)), sep)
    ELSE <<s>>

\* What TextDecoder puts in the place of a malformed byte sequence.
ReplacementChar == "U+FFFD"

RECURSIVE decode_NoStream(_, _)
decode_NoStream(pending, value) ==
    IF value = <<>> THEN [text |-> <<>>, pending |-> <<>>]
    ELSE LET b == Head(value)
             Emit(c, r) == [r EXCEPT !.text = <<c>> \o @]
         IN  IF b = "C3" /\ Len(value) > 1 /\ value[2] = "A9"
             THEN Emit("U+00E9", decode_NoStream(<<>>, Tail(Tail(value))))
             ELSE IF b \in {"C3", "A9"}
                  THEN Emit(ReplacementChar, decode_NoStream(<<>>, Tail(value)))
                  ELSE Emit(b, decode_NoStream(<<>>, Tail(value)))

RECURSIVE decode(_, _)
\* decoder.decode(value, { stream: true }): UTF-8, an incomplete sequence at
\* the end of value is kept in the decoder (pending) for the next call.
decode(pending, value) ==
    IF value = <<>> THEN [text |-> <<>>, pending |-> pending]
    ELSE LET b == Head(value)
             Emit(c, r) == [r EXCEPT !.text = <<c>> \o @]
         IN  IF pending # <<>>
             THEN IF b = "A9"
                  THEN Emit("U+00E9", decode(<<>>, Tail(value)))
                  ELSE Emit(ReplacementChar, decode(<<>>, value))
             ELSE IF b = "C3"
                  THEN decode(<<"C3">>, Tail(value))
                  ELSE IF b = "A9"
                       THEN Emit(ReplacementChar, decode(<<>>, Tail(value)))
                       ELSE Emit(b, decode(<<>>, Tail(value)))

(***************************************************************************)
(* JSON.  A JSON text of the model is "{" key "}" for the events below, or *)
(* the literal null; JSON.parse throws a SyntaxError on everything else.   *)
(***************************************************************************)
SyntaxError == [name |-> "SyntaxError", message |-> <<"Unexpected token">>]

\* Gemini: one candidate with one text part.
GeminiTextEvent ==
    [candidates |-> <<[content |-> [parts |-> <<[text |-> <<"a">>]>>]]>>]

\* Gemini: a thought part, a part without text, a text part, grounding
\* metadata, and a second candidate.
GeminiFullEvent ==
    [candidates |->
        <<[content |-> [parts |-> <<[text |-> <<"t">>, thought |-> TRUE],
                                    [inlineData |-> "png"],
                                    [text |-> <<"b">>]>>],
           groundingMetadata |-> [searchEntryPoint |-> [renderedContent |-> <<"r">>],
                                  groundingChunks |-> <<"w">>]],
          [content |-> [parts |-> <<[text |-> <<"x">>]>>]]>>]

\* Gemini: a candidate that carries grounding metadata and no content parts.
GeminiGroundingEvent ==
    [candidates |->
        <<[groundingMetadata |-> [searchEntryPoint |-> [renderedContent |-> <<"r">>],
                                  groundingChunks |-> <<"w">>]]>>]

\* OpenAI: one choice whose delta has content.
OpenAIContentEvent ==
    [choices |-> <<[delta |-> [content |-> <<"a">>]]>>]

\* OpenAI: content, two tool calls, reasoning, and a second choice.
OpenAIFullEvent ==
    [choices |->
        <<[delta |-> [content |-> <<"b">>,
                      tool_calls |-> <<[id |-> "c1",
                                        function |-> [name |-> "f", arguments |-> "{"]],
                                       [id |-> "c2"]>>,
                      reasoning_content |-> <<"t">>]],
          [delta |-> [content |-> <<"x">>]]>>]

\* OpenAI: a choice without delta (the finish_reason frame).
OpenAIFinishEvent ==
    [choices |-> <<[finish_reason |-> "stop"]>>]

\* The JSON objects of the model by the key of their text.
JsonObjects ==
    [A |-> GeminiTextEvent, B |-> GeminiFullEvent, G |-> GeminiGroundingEvent,
     C |-> OpenAIContentEvent, D |-> OpenAIFullEvent, F |-> OpenAIFinishEvent]

JsonNullText == <<"n", "u", "l", "l">>

\* JSON.parse(text): the value, or SyntaxError when it throws.
JSONParse(text) ==
    IF Len(text) = 3 /\ text[1] = "{" /\ text[3] = "}" /\ text[2] \in DOMAIN JsonObjects
    THEN JsonObjects[text[2]]
    ELSE IF text = JsonNullText THEN Null ELSE SyntaxError

DataPrefix == <<"d", "a", "t", "a", ":", " ">>

DoneSentinel == <<"[", "D", "O", "N", "E", "]">>

parseSSELine_NoCatch(line) ==
    IF ~startsWith(line, DataPrefix) THEN Null
    ELSE LET data == Trim(slice(line, 6))
         IN  IF data = DoneSentinel THEN Null ELSE JSONParse(data)

\* parseSSELine(line): the parsed value, or null.
parseSSELine(line) ==
    IF ~startsWith(line, DataPrefix) THEN Null
    ELSE LET data == Trim(slice(line, 6))
         IN  IF data = DoneSentinel THEN Null
             ELSE IF JSONParse(data) = SyntaxError THEN Null ELSE JSONParse(data)

(***************************************************************************)
(* The chunks a backend yields for one decoded event                       *)
(***************************************************************************)
EmptyObject == [f \in {} |-> TRUE]

\* { [as]: obj[field] } when obj has the field, {} otherwise.
Pick(obj, field, as) == IF Has(obj, field) THEN (as :> obj[field]) ELSE EmptyObject

RECURSIVE GeminiPartChunks(_)
\* for (const part of candidate.content.parts) if (part.text) yield {...}
GeminiPartChunks(parts) ==
    IF parts = <<>> THEN <<>>
    ELSE LET part == Head(parts)
         IN  (IF Has(part, "text") /\ part.text # <<>>
              THEN <<TextChunk(part.text, Has(part, "thought") /\ part.thought)>>
              ELSE <<>>)
             \o GeminiPartChunks(Tail(parts))

\* if (grounding?.searchEntryPoint?.renderedContent) yield {searchResults, groundingChunks}
GeminiGroundingChunks(candidate) ==
    IF /\ Has(candidate, "groundingMetadata")
       /\ Has(candidate.groundingMetadata, "searchEntryPoint")
       /\ Has(candidate.groundingMetadata.searchEntryPoint, "renderedContent")
       /\ candidate.groundingMetadata.searchEntryPoint.renderedContent # <<>>
    THEN <<[text |-> <<>>, thought |-> FALSE, extra |-> "searchResults",
            searchResults |-> candidate.groundingMetadata.searchEntryPoint.renderedContent]
           @@ Pick(candidate.groundingMetadata, "groundingChunks", "groundingChunks")>>
    ELSE <<>>

\* gemini.js, the body of the for-await loop over the lines: what one parsed
\* value makes the generator yield, in order.
GeminiEventChunks(data) ==
    IF data = Null \/ ~Has(data, "candidates") \/ data.candidates = <<>> THEN <<>>
    ELSE LET candidate == data.candidates[1]
         IN  IF ~Has(candidate, "content") \/ ~Has(candidate.content, "parts") THEN <<>>
             ELSE GeminiPartChunks(candidate.content.parts)
                  \o GeminiGroundingChunks(candidate)

RECURSIVE OpenAIToolCallChunks(_)
\* for (const toolCall of choice.delta.tool_calls) yield { toolCall: {id, name, arguments} }
OpenAIToolCallChunks(toolCalls) ==
    IF toolCalls = <<>> THEN <<>>
    ELSE LET toolCall == Head(toolCalls)
             fn == IF Has(toolCall, "function") THEN toolCall.function ELSE EmptyObject
         IN  <<[text |-> <<>>, thought |-> FALSE, extra |-> "toolCall",
                toolCall |-> Pick(toolCall, "id", "id") @@ Pick(fn, "name", "name")
                             @@ Pick(fn, "arguments", "arguments")]>>
             \o OpenAIToolCallChunks(Tail(toolCalls))

OpenAIEventChunks_ReasoningFirst(data) ==
    IF data = Null \/ ~Has(data, "choices") \/ data.choices = <<>> THEN <<>>
    ELSE LET choice == data.choices[1]
         IN  IF ~Has(choice, "delta") THEN <<>>
             ELSE (IF Has(choice.delta, "reasoning_content")
                         /\ choice.delta.reasoning_content # <<>>
                   THEN <<TextChunk(choice.delta.reasoning_content, TRUE)>> ELSE <<>>)
                  \o (IF Has(choice.delta, "content") /\ choice.delta.content # <<>>
                      THEN <<TextChunk(choice.delta.content, FALSE)>> ELSE <<>>)
                  \o (IF Has(choice.delta, "tool_calls")
                      THEN OpenAIToolCallChunks(choice.delta.tool_calls) ELSE <<>>)

\* openai.js, the body of the for-await loop over the lines.
OpenAIEventChunks(data) ==
    IF data = Null \/ ~Has(data, "choices") \/ data.choices = <<>> THEN <<>>
    ELSE LET choice == data.choices[1]
         IN  IF ~Has(choice, "delta") THEN <<>>
             ELSE (IF Has(choice.delta, "content") /\ choice.delta.content # <<>>
                   THEN <<TextChunk(choice.delta.content, FALSE)>> ELSE <<>>)
                  \o (IF Has(choice.delta, "tool_calls")
                      THEN OpenAIToolCallChunks(choice.delta.tool_calls) ELSE <<>>)
                  \o (IF Has(choice.delta, "reasoning_content")
                         /\ choice.delta.reasoning_content # <<>>
                      THEN <<TextChunk(choice.delta.reasoning_content, TRUE)>> ELSE <<>>)

EventChunks(backend, data) ==
    IF backend.class = "GeminiBackend" THEN GeminiEventChunks(data)
    ELSE OpenAIEventChunks(data)

(***************************************************************************)
(* The response bodies the network delivers                                *)
(***************************************************************************)
\* Number of lines of a response body.
MaxLines == 2

\* data: {A}\r  -- an event line of a server that ends its lines with CR LF
DataLine(key, cr) == DataPrefix \o <<"{", key, "}">> \o cr

\* data: {A     -- a frame cut short: not valid JSON
MalformedLine == DataPrefix \o <<"{", "A">>

DoneLine == DataPrefix \o DoneSentinel

\* data:<U+00E9> as bytes -- no space after the colon: not the prefix
NoPrefixLine == <<"d", "a", "t", "a", ":", "C3", "A9">>

NullLine == DataPrefix \o JsonNullText

\* The lines every server may send besides its events: the empty line that
\* separates SSE events, a line of white space, and the ones above.
CommonLines == {<<>>, <<" ">>, MalformedLine, DoneLine, NoPrefixLine, NullLine}

LinesOf(backend) ==
    CommonLines \cup
    (IF backend.class = "GeminiBackend"
     THEN {DataLine("A", <<"\r">>), DataLine("B", <<>>), DataLine("G", <<>>)}
     ELSE {DataLine("C", <<"\r">>), DataLine("D", <<>>), DataLine("F", <<>>)})

RECURSIVE Join(_)
\* The lines with a newline between them.
Join(lines) ==
    IF lines = <<>> THEN <<>>
    ELSE IF Len(lines) = 1 THEN lines[1]
    ELSE lines[1] \o <<"\n">> \o Join(Tail(lines))

\* The bodies of at most MaxLines lines, the last one newline-terminated or not.
Bodies(backend) ==
    {Join(ls) \o end : ls \in UNION {[1..k -> LinesOf(backend)] : k \in 0..MaxLines},
                       end \in {<<>>, <<"\n">>}}

Backends == {createBackend(GeminiUserSettings), createBackend(OpenAIUserSettings)}

VARIABLES
    messages,          \* this.messages
    isStreaming,       \* this.isStreaming
    abortController,   \* this.abortController: NoController or the controller's number
    settings,          \* this.settings
    currentBackend,    \* this.currentBackend
    aborted,           \* aborted[c]: signal.aborted of controller c
    clock,             \* Date.now()
    nextId,            \* ids handed out by generateId()
    gen,               \* gen[t]: the sendMessage generator of call t
    stream,            \* stream[t]: the streamChat generator of call t
    saving,            \* updateSettings calls awaiting SettingsManager.save
    delivered,         \* number of chunks the network has delivered so far
    received,          \* received[t]: chunks the live backend stream of t has produced
    yielded,           \* yielded[t]: what the live sendMessage of t has yielded
    outcome,           \* outcome[t]: how the iteration of call t ended
    turnStart,         \* turnStart[t]: the history before the live call t, its user Message, its input
    stopped            \* stopped[t]: stopStreaming() ran while t was in flight

\* One streamChat iteration looked at block by block.
VARIABLES
    wire,              \* the HTTP exchange: the body, the bytes not yet delivered, the requests made
    sse,               \* the streamChat generator with the locals of readSSEStream
    loop,              \* the for-await loop of sendMessage that consumes it
    linesRead,         \* the lines readSSEStream has yielded, with what parseSSELine returned
    produced           \* the chunks streamChat has yielded, with the line they come from

\* One call of a function of the backends or of the SettingsManager.
VARIABLES
    call               \* the function called, its arguments, and what it returned

\* The side panel (sidepanel.js) around the manager.
VARIABLES
    panel              \* the send handlers that are running, and the settings modal

managerVars == <<messages, isStreaming, abortController, settings, currentBackend,
                 aborted, clock, nextId, gen, stream, saving, delivered, received,
                 yielded, outcome, turnStart, stopped>>

streamVars == <<wire, sse, loop, linesRead, produced>>

callVars == <<call>>

vars == <<messages, isStreaming, abortController, settings, currentBackend,
          aborted, clock, nextId, gen, stream, saving, delivered, received,
          yielded, outcome, turnStart, stopped, wire, sse, loop, linesRead, produced, call,
          panel>>

ghostVars == <<delivered, received, yielded, outcome, turnStart, stopped>>

\* A generator that is not suspended inside its body holds no locals.
GenAt(pc) == [pc |-> pc, fullResponse |-> <<>>, fullThinking |-> <<>>]

StreamAt(pc, e) == [pc |-> pc, backend |-> Null, request |-> Null, error |-> e]

NewGen == GenAt("new")

NoStream == StreamAt("none", Null)

Running == [kind |-> "running", error |-> Null]

\* new ChatManager()
ManagerConstructed ==
    /\ messages = <<>>
    /\ isStreaming = FALSE
    /\ abortController = NoController
    /\ settings = Null
    /\ currentBackend = Null
    /\ aborted = [c \in Turns |-> FALSE]
    /\ clock = 0
    /\ nextId = 1
    /\ gen = [t \in Turns |-> NewGen]
    /\ stream = [t \in Turns |-> NoStream]
    /\ saving = <<>>
    /\ delivered = 0
    /\ received = [t \in Turns |-> <<>>]
    /\ yielded = [t \in Turns |-> <<>>]
    /\ outcome = [t \in Turns |-> Running]
    /\ turnStart = [t \in Turns |-> Null]
    /\ stopped = [t \in Turns |-> "no"]

\* The streamChat generator at pc, with the locals of readSSEStream.
SseAt(pc, backend) ==
    [pc |-> pc, backend |-> backend,
     pending |-> <<>>,      \* bytes the TextDecoder holds back
     buffer |-> <<>>,       \* buffer
     lines |-> <<>>,        \* the lines of the current block not yet looked at
     parts |-> <<>>,        \* the chunks of the current event not yet yielded
     eof |-> FALSE,         \* reader.read() has answered done
     locked |-> FALSE,      \* the reader holds the lock on response.body
     error |-> Null]

\* includeThinking: options.includeThinking of the streamChat call.
NoWire ==
    [text |-> <<>>, net |-> <<>>, requests |-> 0, status |-> "none", errorBody |-> Null,
     includeThinking |-> TRUE]

NoLoop == [fullResponse |-> <<>>, fullThinking |-> <<>>, yielded |-> <<>>, waiting |-> FALSE]

\* No streamChat iteration is being looked at.
StreamIdle ==
    /\ wire = NoWire
    /\ sse = SseAt("none", Null)
    /\ loop = NoLoop
    /\ linesRead = <<>>
    /\ produced = <<>>

\* No single call is being looked at.
NoCall == [fn |-> "none", pc |-> "none"]

\* new SidePanelApp(): no send handler has run, the settings modal is hidden
\* and its model lists are not rendered.
NoPanel ==
    [send |-> [h \in Turns |-> [pc |-> "idle", turn |-> 0]],
     modal |-> [open |-> FALSE, gemini |-> <<>>, openai |-> <<>>, saved |-> FALSE]]

Init == ManagerConstructed /\ StreamIdle /\ call = NoCall /\ panel = NoPanel

(***************************************************************************)
(* init(), updateSettings(), clearConversation()                           *)
(***************************************************************************)
\* init(): the continuation after SettingsManager.load() resolved with s.
InitManager(s) ==
    /\ settings = Null
    /\ settings' = s
    /\ currentBackend' = createBackend(s)
    /\ UNCHANGED <<messages, isStreaming, abortController, aborted, clock, nextId,
                   gen, stream, saving>>
    /\ UNCHANGED ghostVars
    /\ UNCHANGED <<streamVars, callVars, panel>>

\* updateSettings(newSettings) up to "await SettingsManager.save(newSettings)".
UpdateSettings(s) ==
    /\ settings # Null
    /\ Len(saving) < MaxPendingSaves
    /\ settings' = s
    /\ saving' = Append(saving, s)
    /\ UNCHANGED <<messages, isStreaming, abortController, currentBackend, aborted,
                   clock, nextId, gen, stream>>
    /\ UNCHANGED ghostVars
    /\ UNCHANGED <<streamVars, callVars, panel>>

\* save resolved: updateSettings resumes and runs this.createBackend().
SaveResolved ==
    /\ saving # <<>>
    /\ saving' = Tail(saving)
    /\ currentBackend' = createBackend(settings)
    /\ UNCHANGED <<messages, isStreaming, abortController, settings, aborted,
                   clock, nextId, gen, stream>>
    /\ UNCHANGED ghostVars
    /\ UNCHANGED <<streamVars, callVars, panel>>

\* save rejected (chrome.runtime.lastError): updateSettings rejects, no createBackend.
SaveRejected ==
    /\ saving # <<>>
    /\ saving' = Tail(saving)
    /\ UNCHANGED <<messages, isStreaming, abortController, settings, currentBackend,
                   aborted, clock, nextId, gen, stream>>
    /\ UNCHANGED ghostVars
    /\ UNCHANGED <<streamVars, callVars, panel>>

\* this.messages = []
ClearedMessages == <<>>

ClearConversation_EmptiesInPlace ==
    /\ messages' = ClearedMessages
    /\ stream' = [t \in Turns |->
                     IF stream[t].request # Null
                     THEN [stream[t] EXCEPT !.request.history = ClearedMessages]
                     ELSE stream[t]]
    /\ UNCHANGED <<isStreaming, abortController, settings, currentBackend, aborted,
                   clock, nextId, gen, saving>>
    /\ UNCHANGED ghostVars
    /\ UNCHANGED <<streamVars, callVars, panel>>

ClearConversation_ResetsState ==
    /\ messages' = ClearedMessages
    /\ isStreaming' = FALSE
    /\ abortController' = NoController
    /\ UNCHANGED <<settings, currentBackend, aborted, clock, nextId, gen, stream, saving>>
    /\ UNCHANGED ghostVars
    /\ UNCHANGED <<streamVars, callVars, panel>>

ClearConversation ==
    /\ messages' = ClearedMessages
    /\ UNCHANGED <<isStreaming, abortController, settings, currentBackend, aborted,
                   clock, nextId, gen, stream, saving>>
    /\ UNCHANGED ghostVars
    /\ UNCHANGED <<streamVars, callVars, panel>>

(***************************************************************************)
(* sendMessage(userMessage, options)                                       *)
(***************************************************************************)
Error(msg) == [name |-> "Error", message |-> msg]

\* Reading this.settings.systemPrompt when this.settings is null.
SettingsTypeError == [name |-> "TypeError", message |-> <<"Cannot read properties of null">>]

\* What fetch rejects with when the connection cannot be made, and what
\* reader.read() rejects with when it breaks in the middle of the body.
TransportError == [name |-> "TypeError", message |-> <<"Failed to fetch">>]

MidStreamError == [name |-> "TypeError", message |-> <<"network error">>]

\* What fetch and reader.read() reject with when the signal of the request is aborted.
AbortError == [name |-> "AbortError", message |-> <<"The user aborted a request.">>]

\* The calls are numbered in the order they are made.
NextTurn == 1 + Cardinality({t \in Turns : gen[t].pc # "new"})

\* The generators that are suspended inside the try block.
InFlight(t) == gen[t].pc \in {"awaiting", "yielded"}

\* The backend streams that have started and not ended.
StreamActive(t) == stream[t].pc \in {"fetching", "errorBody", "reading", "atYield"}

AlreadyStreaming_Never == FALSE

\* if (this.isStreaming) throw ...
AlreadyStreaming == isStreaming

ComposeContent_Raw(userMessage, pageContent) == userMessage

\* The outbound content: the page-context template, or the user text verbatim.
ComposeContent(userMessage, pageContent) ==
    IF pageContent # Null
    THEN <<"[Current Page Context]\nTitle: ">> \o pageContent.title
         \o <<"\nURL: ">> \o pageContent.url
         \o <<"\n\nContent:\n">> \o pageContent.content
         \o <<"\n\n---\n\nUser Question: ">> \o userMessage
    ELSE userMessage

Last(seq) == seq[Len(seq)]

addMessage(msgs, role, content, id, now) ==
    Append(msgs, [id |-> id, role |-> role, content |-> content, timestamp |-> now])

\* Date.now() never goes back; the steps by which it has advanced at the next call.
ClockSteps == {1}

\* An image the user attached: a data URL and its MIME type.
Image1 == [data |-> <<"data:image/png;base64", ",", "iVBOR">>, type |-> "image/png"]

\* options.images
ImageLists == {<<>>, <<Image1>>}

GeminiConvertMessages_KeepsRoles(msgs) ==
    [i \in 1..Len(msgs) |->
        [ref |-> 0, role |-> msgs[i].role, parts |-> <<[text |-> msgs[i].content]>>]]

\* The entries convertMessages returns are objects of their own: ref 0.  An
\* entry with ref i would be the i-th Message object of the history itself,
\* and a write to it a write to the history.
GeminiConvertMessages(msgs) ==
    [i \in 1..Len(msgs) |->
        [ref |-> 0,
         role |-> IF msgs[i].role = "assistant" THEN "model" ELSE "user",
         parts |-> <<[text |-> msgs[i].content]>>]]

OpenAIConvertMessages_SharesMessages(msgs, systemPrompt) ==
    (IF systemPrompt # "" THEN <<[ref |-> 0, role |-> "system", content |-> systemPrompt]>>
     ELSE <<>>)
    \o [i \in 1..Len(msgs) |-> [ref |-> i, role |-> msgs[i].role, content |-> msgs[i].content]]

OpenAIConvertMessages_RemapsRoles(msgs, systemPrompt) ==
    (IF systemPrompt # "" THEN <<[ref |-> 0, role |-> "system", content |-> systemPrompt]>>
     ELSE <<>>)
    \o [i \in 1..Len(msgs) |->
           [ref |-> 0, role |-> IF msgs[i].role = "assistant" THEN "model" ELSE "user",
            content |-> msgs[i].content]]

OpenAIConvertMessages(msgs, systemPrompt) ==
    (IF systemPrompt # "" THEN <<[ref |-> 0, role |-> "system", content |-> systemPrompt]>>
     ELSE <<>>)
    \o [i \in 1..Len(msgs) |-> [ref |-> 0, role |-> msgs[i].role, content |-> msgs[i].content]]

\* The entries as they are serialised.
Serialised(entries) ==
    [i \in 1..Len(entries) |-> [f \in DOMAIN entries[i] \ {"ref"} |-> entries[i][f]]]

\* The history after a write of value to the field of entry: the write
\* reaches the history when the entry is one of its Messages.
HistoryAfterWrite(msgs, entry, field, value) ==
    IF entry.ref = 0 THEN msgs
    ELSE [msgs EXCEPT ![entry.ref] = (field :> value) @@ @]

GeminiBuildRequestBody_AnyFinalRole(msgs, options) ==
    LET contents == GeminiConvertMessages(msgs)
        n == Len(contents)
        attach == options.images # <<>> /\ n > 0
        imageParts == [k \in 1..Len(options.images) |->
                          [inlineData |->
                              [mimeType |-> IF options.images[k].type # ""
                                            THEN options.images[k].type ELSE "image/jpeg",
                               data |-> split(options.images[k].data, ",")[2]]]]
        parts == contents[n].parts \o imageParts
        final == IF attach THEN [contents EXCEPT ![n].parts = parts] ELSE contents
    IN  [body |-> [contents |-> Serialised(final)]
                  @@ (IF options.systemPrompt # ""
                      THEN [systemInstruction |-> [parts |-> <<[text |-> options.systemPrompt]>>]]
                      ELSE EmptyObject)
                  @@ (IF options.enableSearch
                      THEN [tools |-> <<[googleSearch |-> EmptyObject]>>]
                      ELSE EmptyObject)
                  @@ (IF options.includeThinking
                      THEN [generationConfig |-> [thinkingConfig |-> [includeThoughts |-> TRUE]]]
                      ELSE EmptyObject),
         history |-> msgs]

\* gemini.js buildRequestBody: the body, and the history after the call.
GeminiBuildRequestBody(msgs, options) ==
    LET contents == GeminiConvertMessages(msgs)
        n == Len(contents)
        attach == options.images # <<>> /\ n > 0 /\ contents[n].role = "user"
        imageParts == [k \in 1..Len(options.images) |->
                          [inlineData |->
                              [mimeType |-> IF options.images[k].type # ""
                                            THEN options.images[k].type ELSE "image/jpeg",
                               data |-> split(options.images[k].data, ",")[2]]]]
        parts == contents[n].parts \o imageParts
        final == IF attach THEN [contents EXCEPT ![n].parts = parts] ELSE contents
    IN  [body |-> [contents |-> Serialised(final)]
                  @@ (IF options.systemPrompt # ""
                      THEN [systemInstruction |-> [parts |-> <<[text |-> options.systemPrompt]>>]]
                      ELSE EmptyObject)
                  @@ (IF options.enableSearch
                      THEN [tools |-> <<[googleSearch |-> EmptyObject]>>]
                      ELSE EmptyObject)
                  @@ (IF options.includeThinking
                      THEN [generationConfig |-> [thinkingConfig |-> [includeThoughts |-> TRUE]]]
                      ELSE EmptyObject),
         history |-> IF attach THEN HistoryAfterWrite(msgs, contents[n], "parts", parts)
                     ELSE msgs]

OpenAIBuildRequestBody_SearchTools(backend, msgs, options) ==
    [body |-> [model |-> backend.model,
               messages |-> Serialised(OpenAIConvertMessages(msgs, options.systemPrompt)),
               stream |-> TRUE]
              @@ (IF options.enableSearch THEN [tools |-> <<[type |-> "web_search"]>>]
                  ELSE EmptyObject),
     history |-> msgs]

\* openai.js buildRequestBody: the body, and the history after the call.
OpenAIBuildRequestBody(backend, msgs, options) ==
    LET convertedMessages == OpenAIConvertMessages(msgs, options.systemPrompt)
        n == Len(convertedMessages)
        attach == options.images # <<>> /\ n > 0 /\ convertedMessages[n].role = "user"
        contentArray ==
            <<[type |-> "text", text |-> convertedMessages[n].content]>>
            \o [k \in 1..Len(options.images) |->
                    [type |-> "image_url", image_url |-> [url |-> options.images[k].data]]]
        final == IF attach THEN [convertedMessages EXCEPT ![n].content = contentArray]
                 ELSE convertedMessages
    IN  [body |-> [model |-> backend.model, messages |-> Serialised(final), stream |-> TRUE],
         history |-> IF attach
                     THEN HistoryAfterWrite(msgs, convertedMessages[n], "content", contentArray)
                     ELSE msgs]

\* const body = this.buildRequestBody(messages, options), in streamChat.
buildRequestBody(backend, msgs, options) ==
    IF backend.class = "GeminiBackend" THEN GeminiBuildRequestBody(msgs, options)
    ELSE OpenAIBuildRequestBody(backend, msgs, options)

StreamOptions(s, options) ==
    [systemPrompt |-> s.systemPrompt,
     enableSearch |-> s.enableSearch,
     includeThinking |-> s.includeThinking,
     images |-> options.images]

\* The init object both backends hand to fetch(url, {method, headers, body}).
FetchInit(backend, msgs, streamOptions) ==
    [method |-> "POST",
     history |-> msgs,
     options |-> streamOptions,
     signal |-> NoSignal]

\* Whether the network sees the request as aborted.
SignalAborted(request) ==
    /\ request.signal # NoSignal
    /\ aborted[request.signal]

Finally_KeepsToken ==
    /\ isStreaming' = FALSE
    /\ UNCHANGED <<abortController, aborted>>

\* finally { this.isStreaming = false; this.abortController = null; }
\* Nothing refers to the discarded controller any more: it is forgotten.
Finally ==
    /\ isStreaming' = FALSE
    /\ abortController' = NoController
    /\ aborted' = [c \in Turns |-> IF c = abortController THEN FALSE ELSE aborted[c]]

\* The call t is over: what was recorded about its live iteration is dropped.
Over(t, how, e) ==
    /\ outcome' = [outcome EXCEPT ![t] = [kind |-> how, error |-> e]]
    /\ received' = [received EXCEPT ![t] = <<>>]
    /\ yielded' = [yielded EXCEPT ![t] = <<>>]
    /\ turnStart' = [turnStart EXCEPT ![t] = Null]
    /\ stopped' = [stopped EXCEPT ![t] = "no"]

SendMessageReject_InsideTry(t) ==
    /\ gen' = [gen EXCEPT ![t] = GenAt("threw")]
    /\ Over(t, "error", Error(<<"Already streaming a response">>))
    /\ Finally
    /\ UNCHANGED <<messages, clock, nextId, stream>>

\* The throw of line 278 is outside the try block: nothing else runs.
SendMessageReject(t) ==
    /\ gen' = [gen EXCEPT ![t] = GenAt("threw")]
    /\ Over(t, "error", Error(<<"Already streaming a response">>))
    /\ UNCHANGED <<messages, isStreaming, abortController, aborted, clock, nextId, stream>>

\* The first step of the generator when the gate lets it in: everything up to
\* the first await, which is the fetch of the backend's streamChat.
SendMessageStart(t, userMessage, options, d) ==
    LET content == ComposeContent(userMessage, options.pageContent)
        appended == addMessage(messages, "user", content, nextId, clock + d)
    IN  /\ clock' = clock + d
        /\ nextId' = nextId + 1
        /\ IF settings = Null
           THEN /\ messages' = appended
                /\ Finally
                /\ gen' = [gen EXCEPT ![t] = GenAt("threw")]
                /\ Over(t, "error", SettingsTypeError)
                /\ UNCHANGED stream
           ELSE /\ messages' = buildRequestBody(currentBackend, appended,
                                                StreamOptions(settings, options)).history
                /\ isStreaming' = TRUE
                /\ abortController' = t
                /\ aborted' = [aborted EXCEPT ![t] = FALSE]
                /\ gen' = [gen EXCEPT ![t] = GenAt("awaiting")]
                /\ stream' = [stream EXCEPT ![t] =
                                 [pc |-> "fetching",
                                  backend |-> currentBackend,
                                  request |-> FetchInit(currentBackend, messages',
                                                        StreamOptions(settings, options)),
                                  error |-> Null]]
                /\ turnStart' = [turnStart EXCEPT ![t] =
                                    [history |-> messages, user |-> Last(appended),
                                     input |-> [userMessage |-> userMessage,
                                                pageContent |-> options.pageContent]]]
                /\ UNCHANGED <<outcome, received, yielded, stopped>>

SendMessage(userMessage, options) ==
    LET t == NextTurn
    IN  /\ t \in Turns
        /\ IF AlreadyStreaming
           THEN SendMessageReject(t)
           ELSE \E d \in ClockSteps : SendMessageStart(t, userMessage, options, d)
        /\ UNCHANGED <<settings, currentBackend, saving, delivered>>
        /\ UNCHANGED <<streamVars, callVars, panel>>

\* stopStreaming(): if (this.abortController) this.abortController.abort();
StopStreaming ==
    /\ aborted' = IF abortController # NoController
                  THEN [aborted EXCEPT ![abortController] = TRUE]
                  ELSE aborted
    /\ stopped' = [t \in Turns |->
                      IF InFlight(t) /\ stopped[t] = "no"
                      THEN (IF gen[t].fullResponse # <<>> THEN "withText" ELSE "stopped")
                      ELSE stopped[t]]
    /\ UNCHANGED <<messages, isStreaming, abortController, settings, currentBackend,
                   clock, nextId, gen, stream, saving,
                   delivered, received, yielded, outcome, turnStart>>
    /\ UNCHANGED <<streamVars, callVars, panel>>

(***************************************************************************)
(* The backend stream of a turn and the for-await loop that consumes it    *)
(***************************************************************************)
Accumulate_NoElse(g, chunk) ==
    [g EXCEPT !.fullThinking = IF chunk.thought THEN @ \o chunk.text ELSE @,
              !.fullResponse = @ \o chunk.text]

\* if (chunk.thought) fullThinking += chunk.text || '';
\* else if (chunk.text) fullResponse += chunk.text;
Accumulate(g, chunk) ==
    IF chunk.thought
    THEN [g EXCEPT !.fullThinking = @ \o chunk.text]
    ELSE IF chunk.text # <<>>
         THEN [g EXCEPT !.fullResponse = @ \o chunk.text]
         ELSE g

\* yield { ...chunk, fullResponse, fullThinking }
Yielded(g, chunk) ==
    [chunk |-> chunk, fullResponse |-> g.fullResponse, fullThinking |-> g.fullThinking]

\* error.error?.message || `API error: ${response.status}`, where error is
\* the parsed body, or {} when response.json() rejected (body Null).
HttpErrorMessage(response) ==
    IF /\ response.body # Null
       /\ Has(response.body, "error")
       /\ Has(response.body.error, "message")
       /\ response.body.error.message # <<>>
    THEN response.body.error.message
    ELSE <<"API error: ", response.status>>

\* The error bodies of a non-2xx response: not JSON (Null), or JSON with error.message.
ErrorBodies == {Null, [error |-> [message |-> <<"API key not valid">>]]}

\* A body that is the JSON text null: response.json() resolves with null.
JsonNull == [json |-> "null"]

\* Reading error.error when error is null.
NullTypeError ==
    [name |-> "TypeError", message |-> <<"Cannot read properties of null (reading 'error')">>]

\* What line 94 throws: the Error it builds, or the TypeError of null.error.
HttpFailure(response) ==
    IF response.body = JsonNull THEN NullTypeError
    ELSE Error(HttpErrorMessage(response))

\* All the shapes of an error body: also JSON without error.message, and null.
SseErrorBodies == ErrorBodies \cup {[detail |-> <<"Not Found">>], JsonNull}

HttpStatuses == {"401"}

Propagated_Wrapped(e) == Error(<<"Request failed">>)

\* sendMessage has no catch: what the backend throws is what its caller gets.
Propagated(e) == e

BackendThrow_RollsBack(t, e) ==
    /\ stream' = [stream EXCEPT ![t] = StreamAt("threw", e)]
    /\ gen' = [gen EXCEPT ![t] = GenAt("threw")]
    /\ Over(t, "error", Propagated(e))
    /\ Finally
    /\ messages' = IF messages # <<>> /\ Last(messages).id = turnStart[t].user.id
                   THEN SubSeq(messages, 1, Len(messages) - 1)
                   ELSE messages
    /\ UNCHANGED <<settings, currentBackend, clock, nextId, saving, delivered>>
    /\ UNCHANGED <<streamVars, callVars, panel>>

BackendThrow_CommitsPartial(t, e) ==
    /\ stream' = [stream EXCEPT ![t] = StreamAt("threw", e)]
    /\ gen' = [gen EXCEPT ![t] = GenAt("threw")]
    /\ Over(t, "error", Propagated(e))
    /\ Finally
    /\ clock' = clock + 1
    /\ nextId' = nextId + 1
    /\ messages' = addMessage(messages, "assistant", gen[t].fullResponse, nextId, clock')
    /\ UNCHANGED <<settings, currentBackend, saving, delivered>>
    /\ UNCHANGED <<streamVars, callVars, panel>>


\* The backend generator throws e into the for-await loop of sendMessage.
BackendThrow(t, e) ==
    /\ stream' = [stream EXCEPT ![t] = StreamAt("threw", e)]
    /\ gen' = [gen EXCEPT ![t] = GenAt("threw")]
    /\ Over(t, "error", Propagated(e))
    /\ Finally
    /\ UNCHANGED <<messages, settings, currentBackend, clock, nextId, saving, delivered>>
    /\ UNCHANGED <<streamVars, callVars, panel>>

\* fetch resolves with a 2xx response; readSSEStream starts reading the body.
FetchResolved(t) ==
    /\ stream[t].pc = "fetching"
    /\ ~SignalAborted(stream[t].request)
    /\ stream' = [stream EXCEPT ![t].pc = "reading"]
    /\ UNCHANGED <<messages, isStreaming, abortController, settings, currentBackend,
                   aborted, clock, nextId, gen, saving>>
    /\ UNCHANGED ghostVars
    /\ UNCHANGED <<streamVars, callVars, panel>>

\* fetch resolves with a non-2xx response; the backend awaits response.json().
FetchHttpError(t, status, body) ==
    /\ stream[t].pc = "fetching"
    /\ ~SignalAborted(stream[t].request)
    /\ stream' = [stream EXCEPT ![t].pc = "errorBody",
                                ![t].error = [status |-> status, body |-> body]]
    /\ UNCHANGED <<messages, isStreaming, abortController, settings, currentBackend,
                   aborted, clock, nextId, gen, saving>>
    /\ UNCHANGED ghostVars
    /\ UNCHANGED <<streamVars, callVars, panel>>

\* response.json() settled: the backend throws the HTTP failure.
ErrorBodyRead(t) ==
    /\ stream[t].pc = "errorBody"
    /\ BackendThrow(t, HttpFailure(stream[t].error))

\* fetch rejects: transport failure, or the abort of the request's signal.
FetchRejected(t) ==
    /\ stream[t].pc = "fetching"
    /\ BackendThrow(t, IF SignalAborted(stream[t].request)
                       THEN AbortError ELSE TransportError)

\* reader.read() rejects in the middle of the body.
ReadRejected(t) ==
    /\ stream[t].pc = "reading"
    /\ BackendThrow(t, IF SignalAborted(stream[t].request)
                       THEN AbortError ELSE MidStreamError)

\* The backend yields chunk; the loop body folds it and yields it onward.
StreamChunk(t, chunk) ==
    /\ stream[t].pc = "reading"
    /\ ~SignalAborted(stream[t].request)
    /\ delivered < MaxChunks
    /\ chunk \in ChunksOf(stream[t].backend)
    /\ delivered' = delivered + 1
    /\ stream' = [stream EXCEPT ![t].pc = "atYield"]
    /\ received' = [received EXCEPT ![t] = Append(@, chunk)]
    /\ gen' = [gen EXCEPT ![t] = [Accumulate(gen[t], chunk) EXCEPT !.pc = "yielded"]]
    /\ yielded' = [yielded EXCEPT ![t] = Append(@, Yielded(gen'[t], chunk))]
    /\ UNCHANGED <<messages, isStreaming, abortController, settings, currentBackend,
                   aborted, clock, nextId, saving, outcome, turnStart, stopped>>
    /\ UNCHANGED <<streamVars, callVars, panel>>

\* this.addMessage('assistant', fullResponse)
AssistantContent_WithThinking(g) == g.fullThinking \o g.fullResponse

AssistantContent(g) == g.fullResponse

\* The backend's chunk sequence ends: the assistant Message is added, then finally.
StreamEnd(t, d) ==
    /\ stream[t].pc = "reading"
    /\ ~SignalAborted(stream[t].request)
    /\ stream' = [stream EXCEPT ![t] = StreamAt("ended", Null)]
    /\ clock' = clock + d
    /\ nextId' = nextId + 1
    /\ messages' = addMessage(messages, "assistant", AssistantContent(gen[t]), nextId, clock')
    /\ Finally
    /\ gen' = [gen EXCEPT ![t] = GenAt("done")]
    /\ Over(t, "done", Null)
    /\ UNCHANGED <<settings, currentBackend, saving, delivered>>
    /\ UNCHANGED <<streamVars, callVars, panel>>

\* The caller asks for the next chunk: the loop resumes the backend generator.
ConsumerNext(t) ==
    /\ gen[t].pc = "yielded"
    /\ gen' = [gen EXCEPT ![t].pc = "awaiting"]
    /\ stream' = [stream EXCEPT ![t].pc = "reading"]
    /\ UNCHANGED <<messages, isStreaming, abortController, settings, currentBackend,
                   aborted, clock, nextId, saving>>
    /\ UNCHANGED ghostVars
    /\ UNCHANGED <<streamVars, callVars, panel>>

ConsumerReturn_CommitsPartial(t) ==
    /\ gen[t].pc = "yielded"
    /\ gen' = [gen EXCEPT ![t] = GenAt("closed")]
    /\ stream' = [stream EXCEPT ![t] = StreamAt("closed", Null)]
    /\ Over(t, "closed", Null)
    /\ Finally
    /\ clock' = clock + 1
    /\ nextId' = nextId + 1
    /\ messages' = addMessage(messages, "assistant", gen[t].fullResponse, nextId, clock')
    /\ UNCHANGED <<settings, currentBackend, saving, delivered>>
    /\ UNCHANGED <<streamVars, callVars, panel>>

ConsumerReturn_SkipsFinally(t) ==
    /\ gen[t].pc = "yielded"
    /\ gen' = [gen EXCEPT ![t] = GenAt("closed")]
    /\ stream' = [stream EXCEPT ![t] = StreamAt("closed", Null)]
    /\ Over(t, "closed", Null)
    /\ UNCHANGED <<messages, isStreaming, abortController, aborted, settings,
                   currentBackend, clock, nextId, saving, delivered>>
    /\ UNCHANGED <<streamVars, callVars, panel>>

\* The caller closes the iterator (break / return) at a yield: the finally
\* blocks of sendMessage and of the backend generators run.
ConsumerReturn(t) ==
    /\ gen[t].pc = "yielded"
    /\ gen' = [gen EXCEPT ![t] = GenAt("closed")]
    /\ stream' = [stream EXCEPT ![t] = StreamAt("closed", Null)]
    /\ Over(t, "closed", Null)
    /\ Finally
    /\ UNCHANGED <<messages, settings, currentBackend, clock, nextId, saving, delivered>>
    /\ UNCHANGED <<streamVars, callVars, panel>>

Next ==
    \/ \E s \in StoredSettings : InitManager(s)
    \/ \E s \in SettingsSet : UpdateSettings(s)
    \/ SaveResolved
    \/ SaveRejected
    \/ ClearConversation
    \/ \E u \in UserTexts, p \in PageContents, imgs \in ImageLists :
          SendMessage(u, [pageContent |-> p, images |-> imgs])
    \/ StopStreaming
    \/ \E t \in Turns : FetchResolved(t)
    \/ \E t \in Turns, st \in HttpStatuses, b \in ErrorBodies : FetchHttpError(t, st, b)
    \/ \E t \in Turns : ErrorBodyRead(t)
    \/ \E t \in Turns : FetchRejected(t)
    \/ \E t \in Turns : ReadRejected(t)
    \/ \E t \in Turns, c \in GeminiChunks \cup OpenAIChunks : StreamChunk(t, c)
    \/ \E t \in Turns, d \in ClockSteps : StreamEnd(t, d)
    \/ \E t \in Turns : ConsumerNext(t)
    \/ \E t \in Turns : ConsumerReturn(t)

Spec == Init /\ [][Next]_vars

\* What the network does for the request of turn t: the fetch settles, the
\* error body is read, a read of the body settles.
NetworkStep(t) ==
    \/ FetchResolved(t)
    \/ \E st \in HttpStatuses, b \in ErrorBodies : FetchHttpError(t, st, b)
    \/ ErrorBodyRead(t)
    \/ FetchRejected(t)
    \/ ReadRejected(t)
    \/ \E c \in GeminiChunks \cup OpenAIChunks : StreamChunk(t, c)
    \/ \E d \in ClockSteps : StreamEnd(t, d)

\* What the caller of sendMessage does with a chunk it was handed: it asks
\* for the next one (for await goes round) or closes the iterator.
ConsumerStep(t) == ConsumerNext(t) \/ ConsumerReturn(t)

\* The manager with a network that settles every fetch and every read, and a
\* caller that does not walk away from the iterator.
SpecLive ==
    /\ Init
    /\ [][Next]_vars
    /\ \A t \in Turns : WF_vars(NetworkStep(t)) /\ WF_vars(ConsumerStep(t))

(***************************************************************************)
(* SidePanelApp.sendMessage(): the handler of Enter and of the send button *)
(***************************************************************************)
\* for await (const chunk of this.chatManager.sendMessage(text, {pageContent, images})):
\* handler h makes the next call of the manager's sendMessage and takes its
\* first iteration step; what the call throws is caught and shown.
PanelCall(h, pageContent) ==
    LET t == NextTurn
    IN  /\ panel' = [panel EXCEPT !.send[h] = [pc |-> "called", turn |-> t]]
        /\ IF AlreadyStreaming
           THEN SendMessageReject(t)
           ELSE \E u \in UserTexts, d \in ClockSteps :
                   SendMessageStart(t, u, [pageContent |-> pageContent, images |-> <<>>], d)
        /\ UNCHANGED <<settings, currentBackend, saving, delivered>>

\* The user presses Enter or the send button with text in the input; checked
\* is the state of the include-page checkbox.
\* if (!text || this.chatManager.isStreaming) return; ...
\* if (this.elements.includePage.checked) pageContent = await extractPageContent();
PanelSend(h, checked) ==
    /\ panel.send[h].pc = "idle"
    /\ \A g \in 1..(h - 1) : panel.send[g].pc # "idle"
    /\ IF isStreaming
       THEN /\ panel' = [panel EXCEPT !.send[h].pc = "returned"]
            /\ UNCHANGED managerVars
       ELSE IF checked
       THEN /\ panel' = [panel EXCEPT !.send[h].pc = "extracting"]
            /\ UNCHANGED managerVars
       ELSE PanelCall(h, Null)
    /\ UNCHANGED <<streamVars, callVars>>

\* extractPageContent() resolved with pageContent: the handler goes on.
PanelExtracted(h, pageContent) ==
    /\ panel.send[h].pc = "extracting"
    /\ PanelCall(h, pageContent)
    /\ UNCHANGED <<streamVars, callVars>>

\* new SidePanelApp(); app.init() binds the handlers and then awaits
\* chatManager.init().
PanelInit == Init

PanelNext ==
    \/ \E s \in StoredSettings : InitManager(s)
    \/ \E h \in Turns, checked \in BOOLEAN : PanelSend(h, checked)
    \/ \E h \in Turns, p \in PageContents : PanelExtracted(h, p)
    \/ \E t \in Turns : NetworkStep(t)
    \/ \E t \in Turns : ConsumerNext(t)

SpecPanel == PanelInit /\ [][PanelNext]_vars

(***************************************************************************)
(* One streamChat iteration, block by block (base.js, gemini.js,           *)
(* openai.js), consumed by the for-await loop of sendMessage.              *)
(***************************************************************************)
RECURSIVE Resume_BreakOnNoData(_, _)
Resume_BreakOnNoData(s, tr) ==
    IF s.parts # <<>>
    THEN [gen |-> [s EXCEPT !.pc = "atYield", !.parts = Tail(@)],
          chunk |-> Head(s.parts), lines |-> tr]
    ELSE IF s.lines # <<>>
    THEN LET line == Head(s.lines)
             data == parseSSELine(line)
         IN  IF Trim(line) = <<>>
             THEN Resume_BreakOnNoData([s EXCEPT !.lines = Tail(@)], tr)
             ELSE IF data = SyntaxError
             THEN [gen |-> [SseAt("threw", s.backend) EXCEPT !.error = SyntaxError],
                   chunk |-> Null, lines |-> Append(tr, [line |-> line, data |-> data])]
             ELSE IF data = Null
             THEN [gen |-> SseAt("ended", s.backend), chunk |-> Null,
                   lines |-> Append(tr, [line |-> line, data |-> data])]
             ELSE Resume_BreakOnNoData([s EXCEPT !.lines = Tail(@),
                                                 !.parts = EventChunks(s.backend, data)],
                                       Append(tr, [line |-> line, data |-> data]))
    ELSE IF s.eof
    THEN [gen |-> SseAt("ended", s.backend), chunk |-> Null, lines |-> tr]
    ELSE [gen |-> [s EXCEPT !.pc = "reading"], chunk |-> Null, lines |-> tr]

RECURSIVE Resume(_, _)
\* The generator runs from where it is to its next suspension: the yield of
\* a chunk, the next reader.read(), or its end.  tr: the lines readSSEStream
\* has yielded on the way, each with what parseSSELine made of it.
Resume(s, tr) ==
    IF s.parts # <<>>
    THEN [gen |-> [s EXCEPT !.pc = "atYield", !.parts = Tail(@)],
          chunk |-> Head(s.parts), lines |-> tr]
    ELSE IF s.lines # <<>>
    THEN LET line == Head(s.lines)
             data == parseSSELine(line)
         IN  IF Trim(line) = <<>>
             THEN Resume([s EXCEPT !.lines = Tail(@)], tr)
             ELSE IF data = SyntaxError
             THEN [gen |-> [SseAt("threw", s.backend) EXCEPT !.error = SyntaxError],
                   chunk |-> Null, lines |-> Append(tr, [line |-> line, data |-> data])]
             ELSE Resume([s EXCEPT !.lines = Tail(@),
                                   !.parts = EventChunks(s.backend, data)],
                         Append(tr, [line |-> line, data |-> data]))
    ELSE IF s.eof
    THEN [gen |-> SseAt("ended", s.backend), chunk |-> Null, lines |-> tr]
    ELSE [gen |-> [s EXCEPT !.pc = "reading"], chunk |-> Null, lines |-> tr]

\* The generator is resumed in state s; a chunk it yields goes through the
\* loop body of sendMessage, which yields it onward.
SseRun(s) ==
    \E r \in {Resume(s, <<>>)} :
        /\ sse' = r.gen
        /\ linesRead' = linesRead \o r.lines
        /\ IF r.gen.pc = "atYield"
           THEN /\ produced' = Append(produced, [chunk |-> r.chunk, line |-> Len(linesRead')])
                /\ loop' = LET g == Accumulate(loop, r.chunk)
                           IN  [g EXCEPT !.yielded = Append(@, Yielded(g, r.chunk)),
                                         !.waiting = FALSE]
           ELSE /\ produced' = produced
                /\ loop' = [loop EXCEPT !.waiting = r.gen.pc = "reading"]

\* The generator throws e: the finally of readSSEStream releases the lock.
SseThrow(e) ==
    /\ sse' = [SseAt("threw", sse.backend) EXCEPT !.error = e]
    /\ loop' = [loop EXCEPT !.waiting = FALSE]
    /\ UNCHANGED <<linesRead, produced>>

\* const chunks = backend.streamChat(messages, options): nothing runs yet.
StreamChatCall_Eager ==
    /\ sse.pc = "none"
    /\ sse' = [sse EXCEPT !.pc = "fetching"]
    /\ wire' = [wire EXCEPT !.requests = @ + 1]
    /\ UNCHANGED <<loop, linesRead, produced>>
    /\ UNCHANGED <<managerVars, callVars, panel>>

StreamChatCall ==
    /\ sse.pc = "none"
    /\ sse' = [sse EXCEPT !.pc = "suspendedStart"]
    /\ UNCHANGED <<wire, loop, linesRead, produced>>
    /\ UNCHANGED <<managerVars, callVars, panel>>

\* The first next(): streamChat runs up to "await fetch(url, ...)".
SseFirstNext ==
    /\ sse.pc = "suspendedStart"
    /\ sse' = [sse EXCEPT !.pc = "fetching"]
    /\ wire' = [wire EXCEPT !.requests = @ + 1]
    /\ loop' = [loop EXCEPT !.waiting = TRUE]
    /\ UNCHANGED <<linesRead, produced>>
    /\ UNCHANGED <<managerVars, callVars, panel>>

\* fetch resolves with a 2xx response: getReader(), then the first reader.read().
SseFetchResolved ==
    /\ sse.pc = "fetching"
    /\ wire' = [wire EXCEPT !.status = "200"]
    /\ sse' = [sse EXCEPT !.pc = "reading", !.locked = TRUE]
    /\ UNCHANGED <<loop, linesRead, produced>>
    /\ UNCHANGED <<managerVars, callVars, panel>>

\* fetch resolves with a non-2xx response: await response.json().
SseFetchHttpError(status, body) ==
    /\ sse.pc = "fetching"
    /\ wire' = [wire EXCEPT !.status = status, !.errorBody = body]
    /\ sse' = [sse EXCEPT !.pc = "errorBody"]
    /\ UNCHANGED <<loop, linesRead, produced>>
    /\ UNCHANGED <<managerVars, callVars, panel>>

\* response.json() settled: throw new Error(error.error?.message || ...).
SseErrorBodyRead ==
    /\ sse.pc = "errorBody"
    /\ SseThrow(HttpFailure([status |-> wire.status, body |-> wire.errorBody]))
    /\ UNCHANGED wire
    /\ UNCHANGED <<managerVars, callVars, panel>>

\* fetch rejects.
SseFetchRejected ==
    /\ sse.pc = "fetching"
    /\ SseThrow(TransportError)
    /\ UNCHANGED wire
    /\ UNCHANGED <<managerVars, callVars, panel>>

SseReadBlock_ForgetsBuffer ==
    /\ sse.pc = "reading"
    /\ \E n \in 0..Len(wire.net) :
          /\ wire' = [wire EXCEPT !.net = SubSeq(@, n + 1, Len(@))]
          /\ \E decoded \in {decode(sse.pending, SubSeq(wire.net, 1, n))} :
             \E lines \in {split(decoded.text, "\n")} :
                SseRun([sse EXCEPT !.pending = decoded.pending,
                                   !.buffer = lines[Len(lines)],
                                   !.lines = SubSeq(lines, 1, Len(lines) - 1)])
    /\ UNCHANGED <<managerVars, callVars, panel>>

\* reader.read() resolves with a block of n bytes (the network cuts the
\* body where it likes): decode, split, keep the unterminated rest in buffer,
\* then look at the complete lines.
SseReadBlock ==
    /\ sse.pc = "reading"
    /\ \E n \in 0..Len(wire.net) :
          /\ wire' = [wire EXCEPT !.net = SubSeq(@, n + 1, Len(@))]
          /\ \E decoded \in {decode(sse.pending, SubSeq(wire.net, 1, n))} :
             \E lines \in {split(sse.buffer \o decoded.text, "\n")} :
                SseRun([sse EXCEPT !.pending = decoded.pending,
                                   !.buffer = lines[Len(lines)],
                                   !.lines = SubSeq(lines, 1, Len(lines) - 1)])
    /\ UNCHANGED <<managerVars, callVars, panel>>

\* reader.read() resolves with done: the rest of the buffer is the last
\* line if it is not blank; after it the lock is released and the stream ends.
SseReadDone ==
    /\ sse.pc = "reading"
    /\ wire.net = <<>>
    /\ SseRun([sse EXCEPT !.eof = TRUE,
                          !.lines = IF Trim(sse.buffer) # <<>> THEN <<sse.buffer>> ELSE <<>>,
                          !.buffer = <<>>])
    /\ UNCHANGED wire
    /\ UNCHANGED <<managerVars, callVars, panel>>

\* reader.read() rejects: the connection broke in the middle of the body.
SseReadRejected ==
    /\ sse.pc = "reading"
    /\ SseThrow(MidStreamError)
    /\ UNCHANGED wire
    /\ UNCHANGED <<managerVars, callVars, panel>>

\* The caller of sendMessage asks for the next chunk: the loop calls next()
\* on the backend generator, which goes on after its yield.
SseNext ==
    /\ sse.pc = "atYield"
    /\ SseRun(sse)
    /\ UNCHANGED wire
    /\ UNCHANGED <<managerVars, callVars, panel>>

\* The caller closes the iterator at a yield: return() runs the finally of
\* readSSEStream, which releases the lock; nothing more is read.
SseReturn ==
    /\ sse.pc = "atYield"
    /\ sse' = SseAt("closed", sse.backend)
    /\ UNCHANGED <<wire, loop, linesRead, produced>>
    /\ UNCHANGED <<managerVars, callVars, panel>>


\* The manager has just been constructed; the network will answer the
\* request of the backend with one of the bodies.
SseInit ==
    /\ ManagerConstructed
    /\ \E backend \in Backends : \E text \in Bodies(backend) : \E thinking \in BOOLEAN :
          /\ wire = [NoWire EXCEPT !.text = text, !.net = text,
                                   !.includeThinking = thinking]
          /\ sse = SseAt("none", backend)
    /\ loop = NoLoop
    /\ linesRead = <<>>
    /\ produced = <<>>
    /\ call = NoCall
    /\ panel = NoPanel

SseStep ==
    \/ StreamChatCall
    \/ SseFirstNext
    \/ SseFetchResolved
    \/ \E st \in HttpStatuses, b \in SseErrorBodies : SseFetchHttpError(st, b)
    \/ SseErrorBodyRead
    \/ SseFetchRejected
    \/ SseReadBlock
    \/ SseReadDone
    \/ SseReadRejected
    \/ SseNext
    \/ SseReturn

SpecSse == SseInit /\ [][SseStep]_vars

(***************************************************************************)
(* One call of convertMessages, of buildRequestBody, of streamChat up to   *)
(* its fetch, or of SettingsManager.removeModel or addModel, on arguments  *)
(* of any shape.                                                           *)
(***************************************************************************)
\* Number of Messages of the history handed to a backend.
MaxHistory == 3

\* Number of models in the list of a backend handed to removeModel or
\* addModel, and the length up to which the settings modal adds models.
MaxModels == 2

\* const url = ..., in streamChat: the pieces of the template string.
RequestUrl(backend) ==
    IF backend.class = "GeminiBackend"
    THEN <<backend.apiUrl, "/models/", backend.model, ":streamGenerateContent?alt=sse">>
    ELSE <<backend.apiUrl, "/chat/completions">>

OpenAIHeaders_AlwaysAuthorization(backend) ==
    ("Content-Type" :> "application/json")
    @@ ("Authorization" :> "Bearer " \o backend.apiKey)

\* openai.js: const headers = {'Content-Type': ...}; if (this.apiKey) headers['Authorization'] = ...
OpenAIHeaders(backend) ==
    ("Content-Type" :> "application/json")
    @@ (IF backend.apiKey # "" THEN ("Authorization" :> "Bearer " \o backend.apiKey)
        ELSE EmptyObject)

\* gemini.js: const headers = {'Content-Type': ..., 'x-goog-api-key': this.apiKey}
GeminiHeaders(backend) ==
    ("Content-Type" :> "application/json") @@ ("x-goog-api-key" :> backend.apiKey)

\* fetch(url, { method: 'POST', headers, body: JSON.stringify(body) })
FetchRequest(backend, msgs, options) ==
    [url |-> RequestUrl(backend),
     method |-> "POST",
     headers |-> IF backend.class = "GeminiBackend" THEN GeminiHeaders(backend)
                 ELSE OpenAIHeaders(backend),
     body |-> buildRequestBody(backend, msgs, options).body]

removeModel_SplicesInput(s, modelName) ==
    LET backend == s.backendType
        models == SelectSeq(s[backend].models, LAMBDA m : m # modelName)
        currentModel == IF s.currentModel = modelName
                        THEN IF models # <<>> /\ models[1] # "" THEN models[1] ELSE ""
                        ELSE s.currentModel
        returned == [s EXCEPT !.currentModel = currentModel, ![backend].models = models]
    IN  [returned |-> returned, settings |-> [s EXCEPT ![backend].models = models]]

\* SettingsManager.removeModel(settings, modelName): what it returns, and the
\* settings object it was given as it is after the call; filter and the
\* spreads make new objects.
removeModel(s, modelName) ==
    LET backend == s.backendType
        models == SelectSeq(s[backend].models, LAMBDA m : m # modelName)
        currentModel == IF s.currentModel = modelName
                        THEN IF models # <<>> /\ models[1] # "" THEN models[1] ELSE ""
                        ELSE s.currentModel
    IN  [returned |-> [s EXCEPT !.currentModel = currentModel, ![backend].models = models],
         settings |-> s]

addModel_AlwaysAppends(s, modelName) ==
    LET backend == s.backendType
        models == s[backend].models
    IN  [returned |-> [s EXCEPT ![backend].models = Append(models, modelName)],
         settings |-> s]

\* SettingsManager.addModel(settings, modelName): what it returns, and the
\* settings object it was given as it is after the call; the spreads make new
\* objects, and a model that is in the list gives the settings back.
addModel(s, modelName) ==
    LET backend == s.backendType
        models == s[backend].models
    IN  IF ~(\E i \in 1..Len(models) : models[i] = modelName)
        THEN [returned |-> [s EXCEPT ![backend].models = Append(models, modelName)],
              settings |-> s]
        ELSE [returned |-> s, settings |-> s]

\* A history of n Messages with the given roles.
HistoryOf(roles) ==
    [i \in 1..Len(roles) |->
        [id |-> i, role |-> roles[i], content |-> <<"m", <<"1", "2", "3", "4">>[i]>>,
         timestamp |-> i]]

Histories ==
    {HistoryOf(roles) : roles \in UNION {[1..k -> {"user", "assistant"}] : k \in 0..MaxHistory}}

\* An image whose type the browser did not tell.
Image2 == [data |-> <<"data:;base64", ",", "AAAA">>, type |-> ""]

\* The options argument of streamChat.
OptionsSet ==
    [systemPrompt : {"", "Be helpful"},
     enableSearch : BOOLEAN,
     includeThinking : BOOLEAN,
     images : {<<>>, <<Image1>>, <<Image1, Image2>>}]

\* Backends as constructed, the OpenAI-compatible one with a key and without.
CallBackends ==
    Backends \cup {[createBackend(OpenAIUserSettings) EXCEPT !.apiKey = "sk-key"]}

ModelNames == {"m1", "m2"}

\* The settings handed to removeModel: either backend selected, its list of
\* at most MaxModels models (a model may be there twice), the current model
\* one of them, none, or one that is not in the list.
RemoveModelSettings ==
    {[defaultSettings EXCEPT !.backendType = b, ![b].models = ms, !.currentModel = c] :
        b \in {"gemini", "openai"},
        ms \in UNION {[1..k -> ModelNames] : k \in 0..MaxModels},
        c \in ModelNames \cup {"", "m3"}}

\* The calls looked at.
Calls ==
    {[fn |-> "convertMessages", pc |-> "called", backend |-> b, messages |-> h, options |-> o] :
        b \in CallBackends, h \in Histories, o \in OptionsSet}
    \cup
    {[fn |-> "buildRequestBody", pc |-> "called", backend |-> b, messages |-> h, options |-> o] :
        b \in CallBackends, h \in Histories, o \in OptionsSet}
    \cup
    {[fn |-> "streamChat", pc |-> "called", backend |-> b, messages |-> h, options |-> o] :
        b \in CallBackends, h \in Histories, o \in OptionsSet}
    \cup
    {[fn |-> "removeModel", pc |-> "called", settings |-> st, modelName |-> m] :
        st \in RemoveModelSettings, m \in ModelNames \cup {"", "m3"}}
    \cup
    {[fn |-> "addModel", pc |-> "called", settings |-> st, modelName |-> m] :
        st \in RemoveModelSettings, m \in ModelNames \cup {"m3"}}

\* this.convertMessages(messages) / this.convertMessages(messages, options.systemPrompt)
ConvertMessagesCall ==
    /\ call.fn = "convertMessages" /\ call.pc = "called"
    /\ call' = [fn |-> call.fn, pc |-> "returned", backend |-> call.backend,
                messages |-> call.messages, options |-> call.options,
                returned |-> Serialised(IF call.backend.class = "GeminiBackend"
                                        THEN GeminiConvertMessages(call.messages)
                                        ELSE OpenAIConvertMessages(call.messages,
                                                                   call.options.systemPrompt))]
    /\ UNCHANGED <<managerVars, streamVars, panel>>

\* this.buildRequestBody(messages, options)
BuildRequestBodyCall ==
    /\ call.fn = "buildRequestBody" /\ call.pc = "called"
    /\ \E r \in {buildRequestBody(call.backend, call.messages, call.options)} :
          call' = [fn |-> call.fn, pc |-> "returned", backend |-> call.backend,
                   messages |-> r.history, options |-> call.options, returned |-> r.body]
    /\ UNCHANGED <<managerVars, streamVars, panel>>

\* streamChat(messages, options), from its first next() to its fetch.
StreamChatRequest ==
    /\ call.fn = "streamChat" /\ call.pc = "called"
    /\ call' = [fn |-> call.fn, pc |-> "fetching", backend |-> call.backend,
                messages |-> call.messages, options |-> call.options,
                returned |-> FetchRequest(call.backend, call.messages, call.options)]
    /\ UNCHANGED <<managerVars, streamVars, panel>>

\* SettingsManager.removeModel(settings, modelName)
RemoveModelCall ==
    /\ call.fn = "removeModel" /\ call.pc = "called"
    /\ \E r \in {removeModel(call.settings, call.modelName)} :
          call' = [fn |-> call.fn, pc |-> "returned", settings |-> r.settings,
                   modelName |-> call.modelName, given |-> call.settings,
                   returned |-> r.returned]
    /\ UNCHANGED <<managerVars, streamVars, panel>>

\* SettingsManager.addModel(settings, modelName)
AddModelCall ==
    /\ call.fn = "addModel" /\ call.pc = "called"
    /\ \E r \in {addModel(call.settings, call.modelName)} :
          call' = [fn |-> call.fn, pc |-> "returned", settings |-> r.settings,
                   modelName |-> call.modelName, given |-> call.settings,
                   returned |-> r.returned]
    /\ UNCHANGED <<managerVars, streamVars, panel>>

CallInit ==
    /\ ManagerConstructed
    /\ StreamIdle
    /\ call \in Calls
    /\ panel = NoPanel

CallStep ==
    \/ ConvertMessagesCall
    \/ BuildRequestBodyCall
    \/ StreamChatRequest
    \/ RemoveModelCall
    \/ AddModelCall

SpecCall == CallInit /\ [][CallStep]_vars

(***************************************************************************)
(* The settings modal of the side panel                                    *)
(***************************************************************************)
\* openSettings(): updateUIFromSettings(this.chatManager.settings) renders both
\* model lists, then the modal is shown.
OpenSettings ==
    /\ settings # Null
    /\ ~panel.modal.open
    /\ panel' = [panel EXCEPT !.modal.open = TRUE,
                              !.modal.gemini = settings.gemini.models,
                              !.modal.openai = settings.openai.models]
    /\ UNCHANGED <<managerVars, streamVars, callVars>>

\* closeSettings(): Cancel, X or a click on the backdrop hides the modal.
CloseSettings ==
    /\ panel.modal.open
    /\ panel' = [panel EXCEPT !.modal.open = FALSE]
    /\ UNCHANGED <<managerVars, streamVars, callVars>>

\* A step of the modal that writes this.chatManager.settings[backend].models
\* and renders the list; nothing else of the manager changes.  The lists are
\* edited while no save is pending.
ModalWrites(backend, models) ==
    /\ saving = <<>>
    /\ settings' = [settings EXCEPT ![backend].models = models]
    /\ panel' = [panel EXCEPT !.modal[backend] = models]
    /\ UNCHANGED <<messages, isStreaming, abortController, currentBackend, aborted,
                   clock, nextId, gen, stream, saving>>
    /\ UNCHANGED ghostVars
    /\ UNCHANGED <<streamVars, callVars>>

\* moveModel(backend, index, direction): const settings = {...this.chatManager.settings}
\* copies the top level only, so settings[backend] is the manager's object:
\* settings[backend].models = models writes the manager's settings.
\* The button pressed is the one of a rendered item, index.
ModalMoveModel(backend, direction) ==
    /\ panel.modal.open
    /\ \E index \in 1..Len(panel.modal[backend]) :
          LET models == settings[backend].models
              newIndex == index + direction
          IN  /\ newIndex \in 1..Len(models)
              /\ index \in 1..Len(models)
              /\ ModalWrites(backend, [models EXCEPT ![index] = models[newIndex],
                                                     ![newIndex] = models[index]])

\* addModel(backend, inputElement): settings[backend].models.push(modelName)
\* pushes onto the manager's list.
ModalAddModel(backend, modelName) ==
    /\ panel.modal.open
    /\ LET models == settings[backend].models
       IN  /\ Len(models) < MaxModels
           /\ ~(\E i \in 1..Len(models) : models[i] = modelName)
           /\ ModalWrites(backend, Append(models, modelName))

\* removeModel(backend, modelName): settings[backend].models = ...filter(...)
\* assigns to the manager's object.  The button pressed is the one of a
\* rendered item; the last model of a list is left in place here (a backend
\* without models is constructed with model undefined).
ModalRemoveModel(backend) ==
    /\ panel.modal.open
    /\ Len(settings[backend].models) > 1
    /\ \E i \in 1..Len(panel.modal[backend]) :
          ModalWrites(backend, SelectSeq(settings[backend].models,
                                         LAMBDA m : m # panel.modal[backend][i]))

\* saveSettings() up to "await SettingsManager.save": the model lists are
\* read from the rendered items (an empty one falls back to the manager's
\* list), currentModel is kept if the selected backend still lists it, and
\* updateSettings(newSettings) assigns this.settings.
SaveSettings ==
    /\ panel.modal.open
    /\ Len(saving) < MaxPendingSaves
    /\ LET List(b) == IF panel.modal[b] # <<>> THEN panel.modal[b] ELSE settings[b].models
           currentModels == List(settings.backendType)
           newSettings ==
               [settings EXCEPT
                   !.gemini.models = List("gemini"),
                   !.openai.models = List("openai"),
                   !.currentModel =
                       IF \E i \in 1..Len(currentModels) : currentModels[i] = settings.currentModel
                       THEN settings.currentModel
                       ELSE IF currentModels # <<>> THEN currentModels[1] ELSE ""]
       IN  /\ settings' = newSettings
           /\ saving' = Append(saving, newSettings)
    /\ panel' = [panel EXCEPT !.modal.saved = TRUE]
    /\ UNCHANGED <<messages, isStreaming, abortController, currentBackend, aborted,
                   clock, nextId, gen, stream>>
    /\ UNCHANGED ghostVars
    /\ UNCHANGED <<streamVars, callVars>>

\* The save resolved: updateSettings runs createBackend(), saveSettings
\* closes the modal.
SaveSettingsResolved ==
    /\ saving # <<>>
    /\ saving' = Tail(saving)
    /\ currentBackend' = createBackend(settings)
    /\ panel' = [panel EXCEPT !.modal.open = FALSE]
    /\ UNCHANGED <<messages, isStreaming, abortController, settings, aborted,
                   clock, nextId, gen, stream>>
    /\ UNCHANGED ghostVars
    /\ UNCHANGED <<streamVars, callVars>>

ModalNext ==
    \/ \E s \in StoredSettings : InitManager(s)
    \/ OpenSettings
    \/ CloseSettings
    \/ \E b \in {"gemini", "openai"}, d \in {-1, 1} : ModalMoveModel(b, d)
    \/ \E b \in {"gemini", "openai"}, m \in ModelNames : ModalAddModel(b, m)
    \/ \E b \in {"gemini", "openai"} : ModalRemoveModel(b)
    \/ SaveSettings
    \/ SaveSettingsResolved
    \/ SaveRejected

SpecModal == PanelInit /\ [][ModalNext]_vars

(***************************************************************************)
(* Properties                                                              *)
(***************************************************************************)
RECURSIVE TextOf(_, _)
\* The concatenation, in order, of the text of the chunks whose thought flag is th.
TextOf(chunks, th) ==
    IF chunks = <<>> THEN <<>>
    ELSE (IF Head(chunks).thought = th THEN Head(chunks).text ELSE <<>>)
         \o TextOf(Tail(chunks), th)

\* This step appends one assistant Message to the history.
AssistantAppended ==
    /\ Len(messages') = Len(messages) + 1
    /\ SubSeq(messages', 1, Len(messages)) = messages
    /\ Last(messages').role = "assistant"

\* This step is the normal end of the backend stream of t.
EndsNormally(t) == StreamActive(t) /\ stream'[t].pc = "ended"

\* This step is the backend stream of t failing.
BackendFails(t) == StreamActive(t) /\ stream'[t].pc = "threw"

\* This step is the first step of call t.
Called(t) == gen[t].pc = "new" /\ gen'[t].pc # "new"

AlreadyStreamingOutcome ==
    [kind |-> "error", error |-> Error(<<"Already streaming a response">>)]

\* C1: at most one backend stream of the manager is active at any time: no
\* stream is started while an earlier one has not ended.
C1_SingleFlight ==
    /\ Cardinality({t \in Turns : StreamActive(t)}) <= 1
    /\ Cardinality({t \in Turns : InFlight(t)}) <= 1

\* A stream is active after a second sendMessage was turned away, stopStreaming
\* and clearConversation ran and the settings were changed.
C1_Witness ==
    /\ StreamActive(1)
    /\ outcome[2] = AlreadyStreamingOutcome
    /\ aborted[1]
    /\ messages = <<>>
    /\ currentBackend = createBackend(OpenAIUserSettings)

\* C2: a sendMessage made while the manager is Streaming throws 'Already
\* streaming a response' and changes nothing: history, streaming flag,
\* cancellation token, requests and the generator in flight stay as they are.
C2_RejectedSendHasNoEffect ==
    [][\A t \in Turns :
          (Called(t) /\ isStreaming) =>
              /\ gen'[t].pc = "threw"
              /\ outcome'[t] = AlreadyStreamingOutcome
              /\ \A u \in Turns \ {t} : gen'[u] = gen[u] /\ outcome'[u] = outcome[u]
              /\ UNCHANGED <<messages, isStreaming, abortController, aborted, stream,
                             nextId, received, yielded>>]_vars

\* A call was turned away and the stream that was in flight then went on to
\* its normal end.
C2_Witness ==
    /\ outcome[2] = AlreadyStreamingOutcome
    /\ outcome[1].kind = "done"
    /\ Len(messages) = 2
    /\ Last(messages).content = <<"a", "b">>

C4_NoAssistantAfterStop ==
    [][\A t \in Turns : stopped[t] = "withText" => ~EndsNormally(t) /\ ~AssistantAppended]_vars

\* C5: when a turn on which stopStreaming() ran has ended, the history is the
\* history before its sendMessage.
C5_CancelledTurnLeavesHistory ==
    [][\A t \in Turns :
          (stopped[t] # "no" /\ InFlight(t) /\ gen'[t].pc \notin {"awaiting", "yielded"}) =>
              messages' = turnStart[t].history]_vars

\* C6: after stopStreaming() ran on a turn in flight, the network read is
\* aborted: no further chunk of its stream is yielded to the caller, and the
\* stream does not run to its normal end (the iteration ends as cancelled).
C6_StopAbortsStream ==
    [][\A t \in Turns :
          stopped[t] # "no" =>
              /\ Len(yielded'[t]) <= Len(yielded[t])
              /\ ~EndsNormally(t)]_vars

\* C7: when the backend stream of a turn fails, the iteration ends with that
\* very failure, no assistant Message is appended, and the manager is Idle
\* again, so that the next sendMessage is let in.
C7_BackendFailurePropagates ==
    [][\A t \in Turns :
          BackendFails(t) =>
              /\ gen'[t].pc = "threw"
              /\ outcome'[t] = [kind |-> "error", error |-> stream'[t].error]
              /\ stream'[t].error \in
                    {TransportError, MidStreamError, AbortError,
                     Error(<<"API key not valid">>), Error(<<"API error: ", "401">>)}
              /\ messages' = messages
              /\ isStreaming' = FALSE
              /\ abortController' = NoController]_vars

\* The first turn failed with the provider's message and the second one was let in.
C7_Witness ==
    /\ outcome[1] = [kind |-> "error", error |-> Error(<<"API key not valid">>)]
    /\ InFlight(2)
    /\ Len(messages) = 2
    /\ messages[2].role = "user"

IsMessage(m) ==
    /\ DOMAIN m = {"id", "role", "content", "timestamp"}
    /\ m.role \in {"user", "assistant"}
    /\ m.id \in 1..(nextId - 1)
    /\ m.timestamp \in 1..clock
    /\ DOMAIN m.content = 1..Len(m.content)

\* C8: the history holds fully-formed Messages only; while a turn is in flight
\* its response is in the accumulators of its generator and no assistant
\* Message newer than its user Message is in the history; an assistant Message
\* is only ever appended by the normal end of a backend stream.
C8_OnlyCompletedResponsesInHistory ==
    /\ [](/\ \A i \in 1..Len(messages) : IsMessage(messages[i])
          /\ \A t \in Turns :
                InFlight(t) =>
                    /\ gen[t].fullResponse = TextOf(received[t], FALSE)
                    /\ \A i \in 1..Len(messages) :
                           messages[i].id > turnStart[t].user.id =>
                               messages[i].role # "assistant")
    /\ [][\A i \in 1..Len(messages') :
             (messages'[i].role = "assistant" /\ messages'[i].id >= nextId) =>
                 \E t \in Turns : EndsNormally(t)]_vars

\* A turn is in flight with text in its accumulator while the history holds its
\* user Message only.
C8_Witness ==
    /\ InFlight(1)
    /\ gen[1].fullResponse = <<"a", "b">>
    /\ Len(messages) = 1
    /\ messages[1] = turnStart[1].user

\* C9: clearConversation() can be called in every state; it empties the
\* history and leaves the streaming flag, the cancellation token, the backend
\* and the generators as they are.
C9_ClearIsSafe ==
    /\ [](ENABLED ClearConversation)
    /\ [][ClearConversation =>
             /\ messages' = <<>>
             /\ UNCHANGED <<isStreaming, abortController, aborted, currentBackend,
                            settings, gen, stream>>]_vars

\* The history was cleared while a turn is Streaming: the turn is still in
\* flight, with its token.
C9_Witness ==
    /\ InFlight(1)
    /\ isStreaming
    /\ abortController = 1
    /\ messages = <<>>
    /\ received[1] # <<>>

\* C10: every yield carries the chunk as received and the accumulators over
\* the chunks received so far in the turn: fullResponse is the text of the
\* non-thought chunks, fullThinking the text of the thought chunks; both are
\* empty when the turn starts.
C10_AccumulatorsMatchChunks ==
    \A t \in Turns :
        /\ Len(yielded[t]) = Len(received[t])
        /\ \A i \in 1..Len(yielded[t]) :
               /\ yielded[t][i].chunk = received[t][i]
               /\ yielded[t][i].fullResponse = TextOf(SubSeq(received[t], 1, i), FALSE)
               /\ yielded[t][i].fullThinking = TextOf(SubSeq(received[t], 1, i), TRUE)
        /\ InFlight(t) =>
               /\ gen[t].fullResponse = TextOf(received[t], FALSE)
               /\ gen[t].fullThinking = TextOf(received[t], TRUE)

\* The second turn has yielded a thought chunk and then a chunk without text.
C10_Witness ==
    /\ outcome[1].kind = "done"
    /\ Len(yielded[2]) = 2
    /\ yielded[2][1].chunk.thought
    /\ yielded[2][2].chunk.text = <<>>
    /\ yielded[2][2].fullResponse = <<>>
    /\ yielded[2][2].fullThinking = <<"t">>

(***************************************************************************)
(* Properties of one streamChat iteration (SpecSse)                        *)
(***************************************************************************)
IsPrefix(a, b) == Len(a) <= Len(b) /\ SubSeq(b, 1, Len(a)) = a

RECURSIVE Flatten(_)
Flatten(seqs) == IF seqs = <<>> THEN <<>> ELSE Head(seqs) \o Flatten(Tail(seqs))

\* The chunks streamChat has yielded, in the order of their yield.
ChunksProduced == [i \in 1..Len(produced) |-> produced[i].chunk]

\* The lines of the whole body: the text between the newlines, in order; the
\* last one is what follows the last newline.
BodyLines == split(decode(<<>>, wire.text).text, "\n")

\* What a backend yields for the lines, event after event.
LineChunks(lines) ==
    Flatten([i \in 1..Len(lines) |-> EventChunks(sse.backend, parseSSELine(lines[i]))])

\* The line is a 'data: ' line whose payload is neither [DONE] nor valid JSON.
Malformed(line) ==
    /\ startsWith(line, DataPrefix)
    /\ Trim(slice(line, 6)) # DoneSentinel
    /\ JSONParse(Trim(slice(line, 6))) = SyntaxError

IsDoneLine(line) == startsWith(line, DataPrefix) /\ Trim(slice(line, 6)) = DoneSentinel

NotBlank(line) == Trim(line) # <<>>

\* C11: the chunks sendMessage yields are the chunks streamChat produced, one
\* for one and in the same order, and streamChat produces the chunks of the
\* events in the order of their lines in the body: what it has produced is
\* always an initial part of the chunks of the body's lines, and all of them
\* when the stream has ended.
C11_ChunksInArrivalOrder ==
    /\ Len(loop.yielded) = Len(produced)
    /\ \A i \in 1..Len(produced) : loop.yielded[i].chunk = produced[i].chunk
    /\ \A i, j \in 1..Len(produced) : i < j => produced[i].line <= produced[j].line
    /\ IsPrefix(ChunksProduced, LineChunks(BodyLines))
    /\ sse.pc = "ended" => ChunksProduced = LineChunks(BodyLines)

\* A Gemini stream of two events has ended: three chunks of the first event
\* (thought, text, grounding), then the chunk of the second.
C11_Witness ==
    /\ sse.pc = "ended"
    /\ Len(loop.yielded) = 4
    /\ produced[1].line = 1 /\ produced[3].line = 1 /\ produced[4].line = 2
    /\ loop.yielded[3].chunk.extra = "searchResults"
    /\ loop.yielded[4].chunk.text = <<"a">>

\* The provider's message when the error body is JSON with error.message,
\* 'API error: <status>' otherwise.
ClaimedHttpError(status, body) ==
    IF /\ body # Null
       /\ body # JsonNull
       /\ Has(body, "error")
       /\ Has(body.error, "message")
    THEN Error(body.error.message)
    ELSE Error(<<"API error: ", status>>)

\* C12: a non-success status or a transport failure ends streamChat at its
\* first iteration step, before any chunk: with the provider's message when
\* the error body is JSON with error.message, else 'API error: <status>'; a
\* transport failure as it is; and one HTTP request at most is made.
C12_HttpFailureAtFirstStep ==
    /\ wire.requests <= 1
    /\ (sse.pc = "threw" /\ wire.status = "none") =>
           /\ sse.error = TransportError
           /\ produced = <<>>
    /\ (sse.pc = "threw" /\ wire.status \notin {"none", "200"}) =>
           /\ sse.error = ClaimedHttpError(wire.status, wire.errorBody)
           /\ produced = <<>>

\* C13: a malformed data line is skipped: when the stream has ended, the
\* chunks produced are those of the body's lines without the malformed ones,
\* in order; and a stream only fails with a failure of the network or of the
\* HTTP exchange, never with that of a line.
C13_MalformedFrameSkipped ==
    /\ sse.pc = "ended" =>
           ChunksProduced = LineChunks(SelectSeq(BodyLines, LAMBDA l : ~Malformed(l)))
    /\ sse.pc = "threw" =>
           sse.error \in {TransportError, MidStreamError, NullTypeError}
                         \cup {Error(<<"API error: ", st>>) : st \in HttpStatuses}
                         \cup {Error(<<"API key not valid">>)}

\* A stream whose first line was malformed has ended, with the chunk of the
\* event that came after it.
C13_Witness ==
    /\ sse.pc = "ended"
    /\ Len(linesRead) = 2
    /\ linesRead[1].line = MalformedLine
    /\ Len(produced) = 1
    /\ produced[1].line = 2

\* The lines readSSEStream has yielded.
LinesYielded == [i \in 1..Len(linesRead) |-> linesRead[i].line]

\* C14: however the body is cut into blocks, readSSEStream yields the lines
\* of the body that are not blank, in order (the newline-terminated ones,
\* then what follows the last newline): always an initial part of them, and
\* all of them when the stream has ended.
C14_LinesIndependentOfBlocks ==
    /\ IsPrefix(LinesYielded, SelectSeq(BodyLines, NotBlank))
    /\ sse.pc = "ended" => LinesYielded = SelectSeq(BodyLines, NotBlank)

\* A block has ended in the middle of a line and of a character, after a
\* line was yielded.
C14_Witness ==
    /\ sse.pc = "reading"
    /\ linesRead # <<>>
    /\ sse.buffer # <<>>
    /\ sse.pending # <<>>

\* C15: parseSSELine returns the parsed value when the line starts with
\* 'data: ' and the rest, trimmed, is valid JSON other than [DONE], and null
\* for every other line; it never throws.
C15_ParseSSELineTotal ==
    \A i \in 1..Len(linesRead) :
        LET line == linesRead[i].line
            rest == Trim(slice(line, 6))
        IN  /\ linesRead[i].data # SyntaxError
            /\ linesRead[i].data =
                  IF /\ startsWith(line, DataPrefix)
                     /\ rest # DoneSentinel
                     /\ Len(rest) = 3 /\ rest[1] = "{" /\ rest[3] = "}"
                     /\ rest[2] \in DOMAIN JsonObjects
                  THEN JsonObjects[rest[2]]
                  ELSE Null

\* parseSSELine was given a malformed line, then a line with an event.
C15_Witness ==
    /\ Len(linesRead) = 2
    /\ linesRead[1].line = MalformedLine
    /\ linesRead[1].data = Null
    /\ linesRead[2].line = DataLine("D", <<>>)
    /\ linesRead[2].data = OpenAIFullEvent

\* C16: in an OpenAI stream no chunk comes from a line read after a
\* 'data: [DONE]' line.
C16_DoneTerminates ==
    sse.backend.class = "OpenAIBackend" =>
        \A i \in 1..Len(produced) :
            \A j \in 1..(produced[i].line - 1) : ~IsDoneLine(linesRead[j].line)

\* C17: calling streamChat issues no request; the request is issued by the
\* first iteration step; and bytes are taken from the response body only
\* while an iteration step of the consumer is waiting for its answer.
C17_StreamChatIsLazy ==
    /\ [](/\ sse.pc \in {"none", "suspendedStart"} =>
                 wire.requests = 0 /\ wire.net = wire.text
          /\ sse.pc \in {"fetching", "errorBody", "reading"} => loop.waiting
          /\ sse.pc \in {"atYield", "closed", "ended", "threw"} => ~loop.waiting)
    /\ [][/\ (sse.pc = "none" /\ sse'.pc # "none") => wire' = wire
          /\ wire'.requests # wire.requests =>
                 sse.pc = "suspendedStart" /\ ~loop.waiting /\ loop'.waiting
          /\ wire'.net # wire.net => sse.pc = "reading" /\ loop.waiting]_vars

\* The consumer holds the first chunk and has not asked for the next one:
\* the rest of the body is still on the network.
C17_Witness ==
    /\ sse.pc = "atYield"
    /\ ~loop.waiting
    /\ Len(produced) = 1
    /\ wire.net # <<>>
    /\ wire.requests = 1

\* C18: every sendMessage that is not rejected creates a token of its own,
\* which no step but one of its own turn signals; stopStreaming signals the
\* token of the turn in flight and no other; and the token is discarded when
\* the turn ends: abortController is null again, and whenever it is not null
\* it is the token of the turn in flight.
C18_FreshTokenPerTurn ==
    /\ [](abortController # NoController => InFlight(abortController))
    /\ [][\A t \in Turns :
            /\ (Called(t) /\ gen'[t].pc \in {"awaiting", "yielded"})
                  => abortController' = t /\ ~aborted'[t] /\ abortController # t
            /\ (aborted'[t] /\ ~aborted[t])
                  => abortController = t /\ InFlight(t)
            /\ (InFlight(t) /\ gen'[t].pc \notin {"awaiting", "yielded"})
                  => abortController' = NoController]_vars

\* A second turn in flight holds its own token, signalled by a stop, after
\* the first turn ended and its token was discarded.
C18_Witness ==
    /\ outcome[1].kind = "done"
    /\ InFlight(2)
    /\ abortController = 2
    /\ aborted[2]
    /\ ~aborted[1]

\* C19: building a request, images attached or not, leaves the Message
\* objects of the history as addMessage created them: every step other than
\* clearConversation keeps the Messages the history had, unchanged and in
\* place, and the user Message a call appends is the one addMessage created.
C19_RequestLeavesHistory ==
    [][/\ ClearConversation
          \/ /\ Len(messages') >= Len(messages)
             /\ SubSeq(messages', 1, Len(messages)) = messages
       /\ \A t \in Turns :
             (Called(t) /\ gen'[t].pc \in {"awaiting", "yielded"})
                => /\ Len(messages') = Len(messages) + 1
                   /\ Last(messages') = turnStart'[t].user]_vars

\* A request with an image attached is in flight on an OpenAI-compatible
\* backend, the user Message it appended is in the history as created.
C19_Witness ==
    /\ InFlight(2)
    /\ stream[2].backend.class = "OpenAIBackend"
    /\ stream[2].request.options.images # <<>>
    /\ Len(messages) = 3
    /\ messages[3] = turnStart[2].user
    /\ messages[3].role = "user"

\* The chunks streamChat produced for the i-th line it was given.
ChunksOfLine(i) ==
    LET ps == SelectSeq(produced, LAMBDA p : p.line = i)
    IN  [k \in 1..Len(ps) |-> ps[k].chunk]

\* C20: for each event a Gemini stream has decoded, the chunks produced are:
\* a text chunk for each part of candidates[0] that has text, in the order of
\* the parts and with the thought flag of the part, then the grounding chunk
\* if candidates[0] has grounding metadata with rendered content.
C20_GeminiChunksOfEvent ==
    sse.backend.class = "GeminiBackend" =>
        \A i \in 1..Len(linesRead) :
            (i < Len(linesRead) \/ sse.pc = "ended") =>
                LET data == linesRead[i].data
                    candidate == data.candidates[1]
                IN  ChunksOfLine(i) =
                        IF data = Null \/ ~Has(data, "candidates") THEN <<>>
                        ELSE (IF Has(candidate, "content")
                              THEN GeminiPartChunks(candidate.content.parts)
                              ELSE <<>>)
                             \o GeminiGroundingChunks(candidate)

\* The first candidate of the event carries grounding metadata with rendered
\* search content.
HasRenderedGrounding(data) ==
    /\ data # Null
    /\ Has(data, "candidates")
    /\ data.candidates # <<>>
    /\ Has(data.candidates[1], "groundingMetadata")
    /\ Has(data.candidates[1].groundingMetadata, "searchEntryPoint")
    /\ Has(data.candidates[1].groundingMetadata.searchEntryPoint, "renderedContent")
    /\ data.candidates[1].groundingMetadata.searchEntryPoint.renderedContent # <<>>

\* The line has been dealt with: the generator has gone past its event.
LineDone(i) == i < Len(linesRead) \/ sse.pc = "ended"

\* C21: for every event a Gemini stream has decoded whose first candidate
\* carries grounding metadata with rendered search content, exactly one chunk
\* of that event carries the search results: the rendered content, with the
\* raw list of grounding chunks; with content parts in the candidate or not.
C21_GroundingChunkEmitted ==
    sse.backend.class = "GeminiBackend" =>
        \A i \in 1..Len(linesRead) :
            (LineDone(i) /\ HasRenderedGrounding(linesRead[i].data)) =>
                LET grounding == linesRead[i].data.candidates[1].groundingMetadata
                    found == SelectSeq(ChunksOfLine(i), LAMBDA c : c.extra = "searchResults")
                IN  /\ Len(found) = 1
                    /\ found[1].searchResults = grounding.searchEntryPoint.renderedContent
                    /\ found[1].groundingChunks = grounding.groundingChunks

\* C22: for each event an OpenAI stream has decoded, the chunks produced come
\* from choices[0].delta alone and are, each present or not on its own: the
\* content as a text chunk that is no thought; then a toolCall chunk for each
\* entry of tool_calls in order, with the id, the name and the arguments of
\* the entry as they came; then the reasoning content as a thought chunk,
\* whatever includeThinking the call was made with.
C22_OpenAIChunksOfEvent ==
    sse.backend.class = "OpenAIBackend" =>
        \A i \in 1..Len(linesRead) :
            LineDone(i) =>
                LET data == linesRead[i].data
                    chunks == ChunksOfLine(i)
                    delta == data.choices[1].delta
                    c == IF Has(delta, "content") THEN 1 ELSE 0
                    n == IF Has(delta, "tool_calls") THEN Len(delta.tool_calls) ELSE 0
                    r == IF Has(delta, "reasoning_content") THEN 1 ELSE 0
                IN  IF data = Null \/ ~Has(data, "choices") \/ ~Has(data.choices[1], "delta")
                    THEN chunks = <<>>
                    ELSE /\ Len(chunks) = c + n + r
                         /\ c = 1 => /\ chunks[1].text = delta.content
                                     /\ ~chunks[1].thought
                                     /\ chunks[1].extra = "none"
                         /\ \A k \in 1..n :
                               LET toolCall == delta.tool_calls[k]
                                   sent == chunks[c + k].toolCall
                               IN  /\ chunks[c + k].extra = "toolCall"
                                   /\ Has(sent, "id") <=> Has(toolCall, "id")
                                   /\ Has(toolCall, "id") => sent.id = toolCall.id
                                   /\ Has(sent, "name") <=>
                                          (Has(toolCall, "function") /\ Has(toolCall.function, "name"))
                                   /\ Has(sent, "name") => sent.name = toolCall.function.name
                                   /\ Has(sent, "arguments") <=>
                                          (Has(toolCall, "function") /\ Has(toolCall.function, "arguments"))
                                   /\ Has(sent, "arguments") =>
                                          sent.arguments = toolCall.function.arguments
                         /\ r = 1 => /\ chunks[c + n + 1].text = delta.reasoning_content
                                     /\ chunks[c + n + 1].thought
                                     /\ chunks[c + n + 1].extra = "none"

\* A call made without includeThinking has decoded an event with all three
\* signals: content, two tool calls, reasoning, four chunks in that order.
C22_Witness ==
    /\ sse.backend.class = "OpenAIBackend"
    /\ ~wire.includeThinking
    /\ Len(linesRead) = 2
    /\ linesRead[1].data = OpenAIFullEvent
    /\ Len(ChunksOfLine(1)) = 4
    /\ ChunksOfLine(1)[1] = TextChunk(<<"b">>, FALSE)
    /\ ChunksOfLine(1)[2].toolCall = [id |-> "c1", name |-> "f", arguments |-> "{"]
    /\ ChunksOfLine(1)[3].toolCall = [id |-> "c2"]
    /\ ChunksOfLine(1)[4] = TextChunk(<<"t">>, TRUE)

\* A request body has been built: by a call of buildRequestBody, or by
\* streamChat for its fetch.
BodyBuilt ==
    \/ call.fn = "buildRequestBody" /\ call.pc = "returned"
    \/ call.fn = "streamChat" /\ call.pc = "fetching"

BodyOfCall == IF call.fn = "streamChat" THEN call.returned.body ELSE call.returned

\* The final entry of the history is a user turn and images were given.
ImagesDue ==
    /\ call.options.images # <<>>
    /\ call.messages # <<>>
    /\ Last(call.messages).role = "user"

\* C23: in the request body of either backend, the entry of the final
\* Message carries the images (after its text, in the order given) when
\* images were given and that Message is a user turn; every other entry, and
\* every entry when the final Message is no user turn or the history is
\* empty, carries its text alone.
C23_ImagesOnFinalUserTurnOnly ==
    BodyBuilt =>
        LET images == call.options.images
            msgs == call.messages
        IN  IF call.backend.class = "GeminiBackend"
            THEN LET contents == BodyOfCall.contents
                 IN  /\ Len(contents) = Len(msgs)
                     /\ \A i \in 1..Len(contents) :
                           LET parts == contents[i].parts
                           IN  /\ Len(parts) =
                                     IF ImagesDue /\ i = Len(msgs) THEN 1 + Len(images) ELSE 1
                               /\ DOMAIN parts[1] = {"text"}
                               /\ \A k \in 2..Len(parts) :
                                     /\ DOMAIN parts[k] = {"inlineData"}
                                     /\ parts[k].inlineData.data = <<images[k - 1].data[3]>>
            ELSE LET sent == BodyOfCall.messages
                     o == Len(sent) - Len(msgs)
                 IN  /\ o \in {0, 1}
                     /\ \A i \in 1..Len(msgs) :
                           IF ImagesDue /\ i = Len(msgs)
                           THEN /\ Len(sent[o + i].content) = 1 + Len(images)
                                /\ sent[o + i].content[1] =
                                      [type |-> "text", text |-> msgs[i].content]
                                /\ \A k \in 1..Len(images) :
                                      sent[o + i].content[1 + k] =
                                          [type |-> "image_url",
                                           image_url |-> [url |-> images[k].data]]
                           ELSE sent[o + i].content = msgs[i].content
                     /\ o = 1 => sent[1].content = call.options.systemPrompt

\* The Gemini backend has built a body with two images for a history of
\* three Messages that ends with a user turn: the images are in the third
\* entry, the second one with the default MIME type.
C23_Witness ==
    /\ call.fn = "buildRequestBody" /\ call.pc = "returned"
    /\ call.backend.class = "GeminiBackend"
    /\ Len(call.messages) = 3
    /\ call.messages[1].role = "user" /\ call.messages[3].role = "user"
    /\ Len(call.options.images) = 2
    /\ Len(call.returned.contents[1].parts) = 1
    /\ Len(call.returned.contents[3].parts) = 3
    /\ call.returned.contents[3].parts[3].inlineData = [mimeType |-> "image/jpeg", data |-> <<"AAAA">>]

\* C24: the body the OpenAI-compatible backend builds has the keys model,
\* messages and stream and no other, and is the body it builds for the same
\* history and options with enableSearch the other way.
C24_OpenAIBodyIgnoresSearch ==
    (BodyBuilt /\ call.backend.class = "OpenAIBackend") =>
        /\ DOMAIN BodyOfCall = {"model", "messages", "stream"}
        /\ BodyOfCall =
              OpenAIBuildRequestBody(call.backend, call.messages,
                                     [call.options EXCEPT !.enableSearch = ~@]).body

\* The OpenAI-compatible backend has built a body for a call with
\* enableSearch set.
C24_Witness ==
    /\ call.fn = "buildRequestBody" /\ call.pc = "returned"
    /\ call.backend.class = "OpenAIBackend"
    /\ call.options.enableSearch
    /\ Len(call.returned.messages) = 4

\* C25: the request of the OpenAI-compatible backend has an Authorization
\* header exactly when the API key is not empty, and then its value is
\* 'Bearer ' followed by the key.
C25_AuthorizationIffKey ==
    (call.fn = "streamChat" /\ call.pc = "fetching" /\ call.backend.class = "OpenAIBackend") =>
        LET headers == call.returned.headers
        IN  /\ Has(headers, "Authorization") <=> call.backend.apiKey # ""
            /\ Has(headers, "Authorization") =>
                   headers["Authorization"] = "Bearer " \o call.backend.apiKey
            /\ headers["Content-Type"] = "application/json"

\* A backend without a key has made its request: Content-Type is its only
\* header.
C25_Witness ==
    /\ call.fn = "streamChat" /\ call.pc = "fetching"
    /\ call.backend.class = "OpenAIBackend"
    /\ call.backend.apiKey = ""
    /\ DOMAIN call.returned.headers = {"Content-Type"}

\* C26: OpenAI convertMessages returns the Messages as {role, content} with
\* role and content as they are, in order, after one system entry with the
\* system prompt when one is given, and after nothing when none is.
C26_OpenAIConvertMessages ==
    (call.fn = "convertMessages" /\ call.pc = "returned"
     /\ call.backend.class = "OpenAIBackend") =>
        LET o == IF call.options.systemPrompt # "" THEN 1 ELSE 0
            result == call.returned
        IN  /\ Len(result) = Len(call.messages) + o
            /\ o = 1 => /\ result[1].role = "system"
                        /\ result[1].content = call.options.systemPrompt
                        /\ DOMAIN result[1] = {"role", "content"}
            /\ \A i \in 1..Len(call.messages) :
                  /\ result[o + i].role = call.messages[i].role
                  /\ result[o + i].content = call.messages[i].content
                  /\ DOMAIN result[o + i] = {"role", "content"}

\* A history with an assistant Message was converted with a system prompt.
C26_Witness ==
    /\ call.fn = "convertMessages" /\ call.pc = "returned"
    /\ call.backend.class = "OpenAIBackend"
    /\ call.options.systemPrompt = "Be helpful"
    /\ Len(call.returned) = 4
    /\ call.returned[1].role = "system"
    /\ call.returned[3].role = "assistant"

\* C27: the Gemini body has one entry of contents per Message, in order, with
\* role 'model' for an assistant Message and 'user' otherwise and the content
\* as its first part (its only part when no image is attached); it has
\* systemInstruction exactly when a system prompt is given, tools =
\* [{googleSearch:{}}] exactly when enableSearch, generationConfig with
\* thinkingConfig.includeThoughts = true exactly when includeThinking, and no
\* other key.
C27_GeminiRequestBody ==
    (BodyBuilt /\ call.backend.class = "GeminiBackend") =>
        LET body == BodyOfCall
            options == call.options
        IN  /\ Len(body.contents) = Len(call.messages)
            /\ \A i \in 1..Len(call.messages) :
                  /\ DOMAIN body.contents[i] = {"role", "parts"}
                  /\ body.contents[i].role =
                        IF call.messages[i].role = "assistant" THEN "model" ELSE "user"
                  /\ body.contents[i].parts[1] = [text |-> call.messages[i].content]
                  /\ options.images = <<>> => Len(body.contents[i].parts) = 1
            /\ DOMAIN body \subseteq
                  {"contents", "systemInstruction", "tools", "generationConfig"}
            /\ Has(body, "systemInstruction") <=> options.systemPrompt # ""
            /\ Has(body, "systemInstruction") =>
                  body.systemInstruction = [parts |-> <<[text |-> options.systemPrompt]>>]
            /\ Has(body, "tools") <=> options.enableSearch
            /\ Has(body, "tools") =>
                  /\ Len(body.tools) = 1
                  /\ DOMAIN body.tools[1] = {"googleSearch"}
                  /\ DOMAIN body.tools[1].googleSearch = {}
            /\ Has(body, "generationConfig") <=> options.includeThinking
            /\ Has(body, "generationConfig") =>
                  body.generationConfig = [thinkingConfig |-> [includeThoughts |-> TRUE]]

\* A body was built with every option set, for a history with an assistant
\* Message in it.
C27_Witness ==
    /\ call.fn = "buildRequestBody" /\ call.pc = "returned"
    /\ call.backend.class = "GeminiBackend"
    /\ DOMAIN call.returned = {"contents", "systemInstruction", "tools", "generationConfig"}
    /\ Len(call.returned.contents) = 3
    /\ call.returned.contents[2].role = "model"
    /\ call.returned.contents[3].role = "user"

\* C30: removeModel returns the settings with every entry equal to modelName
\* taken out of the list of the selected backend, the others in their order;
\* everything else is as it was, the other backend's list included, but for
\* currentModel: when it was modelName it is the first model that remains, or
\* '' when none does, and else it is unchanged, so a currentModel that was in
\* the list (or '') still is.  The settings object given is left as it was.
C30_RemoveModel ==
    (call.fn = "removeModel" /\ call.pc = "returned") =>
        LET given == call.given
            b == given.backendType
            other == IF b = "gemini" THEN "openai" ELSE "gemini"
            before == given[b].models
            after == call.returned[b].models
            kept == {i \in 1..Len(before) : before[i] # call.modelName}
            InList(m, list) == \E i \in 1..Len(list) : list[i] = m
        IN  /\ call.settings = given
            /\ Len(after) = Cardinality(kept)
            /\ \A i \in kept : after[Cardinality({j \in kept : j <= i})] = before[i]
            /\ call.returned[other] = given[other]
            /\ call.returned[b].apiUrl = given[b].apiUrl
            /\ call.returned[b].apiKey = given[b].apiKey
            /\ \A f \in DOMAIN given \ {b, "currentModel"} : call.returned[f] = given[f]
            /\ DOMAIN call.returned = DOMAIN given
            /\ call.returned.currentModel =
                  IF given.currentModel # call.modelName THEN given.currentModel
                  ELSE IF after = <<>> THEN "" ELSE after[1]
            /\ (given.currentModel = "" \/ InList(given.currentModel, before)) =>
                  (call.returned.currentModel = "" \/ InList(call.returned.currentModel, after))

\* The current model was removed from the list of the OpenAI-compatible
\* backend: the model that remains is the current one, the Gemini list is
\* as it was.
C30_Witness ==
    /\ call.fn = "removeModel" /\ call.pc = "returned"
    /\ call.given.backendType = "openai"
    /\ call.given.openai.models = <<"m1", "m2">>
    /\ call.given.currentModel = "m1"
    /\ call.modelName = "m1"
    /\ call.returned.openai.models = <<"m2">>
    /\ call.returned.currentModel = "m2"
    /\ call.returned.gemini = defaultSettings.gemini

\* C31: addModel never makes a duplicate and is idempotent: for a model that is
\* in the list of the selected backend it returns the settings as given, for
\* one that is not it returns them with the model appended at the end of that
\* list and nothing else changed, the other backend's list included; adding
\* the same model to the result again changes nothing; the settings object
\* given is left as it was.
C31_AddModel ==
    (call.fn = "addModel" /\ call.pc = "returned") =>
        LET given == call.given
            b == given.backendType
            other == IF b = "gemini" THEN "openai" ELSE "gemini"
            before == given[b].models
            after == call.returned[b].models
            Count(m, list) == Cardinality({i \in 1..Len(list) : list[i] = m})
        IN  /\ call.settings = given
            /\ (Count(call.modelName, before) > 0) => call.returned = given
            /\ (Count(call.modelName, before) = 0) => after = Append(before, call.modelName)
            /\ \A m \in ModelNames \cup {"m3"} :
                  Count(m, after) = IF m = call.modelName /\ Count(m, before) = 0
                                    THEN 1 ELSE Count(m, before)
            /\ call.returned[other] = given[other]
            /\ DOMAIN call.returned = DOMAIN given
            /\ \A f \in DOMAIN given \ {b} : call.returned[f] = given[f]
            /\ call.returned[b].apiUrl = given[b].apiUrl
            /\ call.returned[b].apiKey = given[b].apiKey
            /\ addModel(call.returned, call.modelName).returned = call.returned

\* A model that the OpenAI-compatible backend did not have was added after
\* the one it had.
C31_Witness ==
    /\ call.fn = "addModel" /\ call.pc = "returned"
    /\ call.given.backendType = "openai"
    /\ call.given.openai.models = <<"m1">>
    /\ call.modelName = "m2"
    /\ call.returned.openai.models = <<"m1", "m2">>
    /\ call.returned.gemini = defaultSettings.gemini

\* C32: the token exists exactly when the manager is Streaming, in every state:
\* abortController is not null if and only if isStreaming is true.  So a
\* stopStreaming() in Idle finds no token and changes nothing.
C32_TokenIffStreaming ==
    /\ []((abortController # NoController) <=> isStreaming)
    /\ [][(StopStreaming /\ ~isStreaming) => UNCHANGED vars]_vars

\* The manager is Idle again after a turn that streamed: the token is gone,
\* and no token is marked as signalled.
C32_Witness ==
    /\ outcome[1].kind = "done"
    /\ ~isStreaming
    /\ abortController = NoController
    /\ \A c \in Turns : ~aborted[c]
    /\ ENABLED StopStreaming

\* C33: a backend failure does not roll the turn's user Message back.  The
\* step in which the backend of a turn fails leaves the history as it is, and
\* the history is then the history before the turn plus the turn's user
\* Message (or empty, when clearConversation() ran during the turn).  So the
\* request of a turn that follows a failed one (the last call before it that
\* the gate let in) ends with two user entries, the failed turn's and its own.
C33_FailedTurnKeepsUserMessage ==
    /\ [][\A t \in Turns :
             BackendFails(t) =>
                 /\ messages' = messages
                 /\ \/ messages = Append(turnStart[t].history, turnStart[t].user)
                    \/ messages = <<>>]_vars
    /\ [](\A t \in Turns :
             (/\ InFlight(t)
              /\ turnStart[t].history # <<>>
              /\ LET prior == {p \in 1..(t - 1) : outcome[p] # AlreadyStreamingOutcome}
                 IN  /\ prior # {}
                     /\ \E p \in prior :
                           /\ \A q \in prior : q <= p
                           /\ outcome[p].kind = "error") =>
                 LET sent == stream[t].request.history
                     n == Len(sent)
                 IN  /\ n >= 2
                     /\ sent[n - 1].role = "user"
                     /\ sent[n].role = "user"
                     /\ sent[n - 1].id < sent[n].id
                     /\ sent[n] = turnStart[t].user)

\* The first turn failed after its backend had streamed a chunk; the second
\* turn is in flight and its request holds the two user Messages, nothing
\* else.
C33_Witness ==
    /\ outcome[1].kind = "error"
    /\ delivered >= 1
    /\ InFlight(2)
    /\ Len(stream[2].request.history) = 2
    /\ stream[2].request.history[1].role = "user"
    /\ stream[2].request.history[2].role = "user"
    /\ messages = stream[2].request.history

\* C34: in every state, every assistant Message of the history comes right
\* after the user Message of its turn, the one created just before it; the
\* history never starts with an assistant Message.
C34_AssistantFollowsItsUser ==
    \A i \in 1..Len(messages) :
        messages[i].role = "assistant" =>
            /\ i > 1
            /\ messages[i - 1].role = "user"
            /\ messages[i - 1].id + 1 = messages[i].id

\* C35: when the network settles every fetch and read and the caller goes on
\* iterating or closes the iterator, the manager is Idle again and again
\* (isStreaming false, the token discarded): no turn, however it ends, leaves
\* it Streaming for ever; and it is Streaming only while a call is in flight.
C35_StreamingReturnsToIdle ==
    /\ []<>(~isStreaming /\ abortController = NoController)
    /\ [](isStreaming => \E t \in Turns : InFlight(t))

\* The first turn failed and the second was closed early by its caller after
\* a chunk: the manager is Idle.
C35_Witness ==
    /\ outcome[1].kind = "error"
    /\ outcome[2].kind = "closed"
    /\ delivered >= 1
    /\ ~isStreaming
    /\ abortController = NoController

\* The manager's side of an early close: the step in which the caller closes
\* the iterator of a turn at a yield leaves the history as it is, makes the
\* manager Idle and closes the backend stream of the turn, which is not
\* resumed afterwards.
EarlyCloseInManager ==
    /\ [][\A t \in Turns :
             (gen[t].pc = "yielded" /\ gen'[t].pc = "closed") =>
                 /\ received[t] # <<>>
                 /\ messages' = messages
                 /\ ~isStreaming' /\ abortController' = NoController
                 /\ stream'[t].pc = "closed"
                 /\ delivered' = delivered]_vars
    /\ [](\A t \in Turns :
             gen[t].pc = "closed" => stream[t].pc = "closed" /\ ~ENABLED NetworkStep(t))

\* The backend's side: the step in which streamChat is closed at a yield takes
\* nothing from the response body and releases the lock the reader held; once
\* closed, the generator reads no further block and produces no chunk.
EarlyCloseInBackend ==
    /\ [][/\ (sse.pc = "atYield" /\ sse'.pc = "closed") =>
                 /\ sse.locked /\ ~sse'.locked
                 /\ wire' = wire
                 /\ produced' = produced /\ linesRead' = linesRead
          /\ sse.pc = "closed" =>
                 /\ wire' = wire /\ produced' = produced /\ sse'.pc = "closed"]_vars
    /\ [](sse.pc = "closed" => ~sse.locked /\ ~ENABLED SseReadBlock /\ ~ENABLED SseReadDone)

EarlyCloseInBackendWitness ==
    /\ sse.pc = "closed"
    /\ ~sse.locked
    /\ wire.net # <<>>
    /\ produced # <<>>

\* C37: whenever no updateSettings call is in progress, the backend is the
\* one of the settings the manager holds: its variant is settings.backendType
\* and its apiUrl, apiKey and model are those of getBackendConfig(settings).
\* So an updateSettings whose save failed has left settings and backend as
\* they were.
C37_BackendMatchesSettings ==
    (settings # Null /\ saving = <<>>) =>
        /\ currentBackend # Null
        /\ currentBackend.class = (IF settings.backendType = "gemini"
                                   THEN "GeminiBackend" ELSE "OpenAIBackend")
        /\ currentBackend.apiUrl = getBackendConfig(settings).apiUrl
        /\ currentBackend.apiKey = getBackendConfig(settings).apiKey
        /\ currentBackend.model = getBackendConfig(settings).model

\* C38: the request of a turn is built, when the turn starts, from the whole
\* history of that moment in its order, followed by the turn's own user
\* Message and nothing else; and no later step, a clearConversation()
\* included, changes a request that has been issued.
C38_RequestIsHistoryAtStart ==
    /\ [][\A t \in Turns :
             (Called(t) /\ gen'[t].pc \in {"awaiting", "yielded"}) =>
                 LET sent == stream'[t].request.history
                 IN  /\ sent = Append(messages, Last(sent))
                     /\ Last(sent).role = "user"
                     /\ Last(sent).id = nextId
                     /\ \A i, j \in 1..Len(sent) : i < j => sent[i].id < sent[j].id]_vars
    /\ [][\A t \in Turns :
             (StreamActive(t) /\ StreamActive(t)') =>
                 stream'[t].request = stream[t].request]_vars

\* The second turn is in flight and the history was cleared after its
\* request was issued: the request still holds the first turn's two Messages
\* and the second turn's user Message.
C38_Witness ==
    /\ InFlight(2)
    /\ messages = <<>>
    /\ Len(stream[2].request.history) = 3
    /\ stream[2].request.history[1].role = "user"
    /\ stream[2].request.history[2].role = "assistant"
    /\ stream[2].request.history[3] = turnStart[2].user

\* C39: the side panel never calls sendMessage of the manager while the
\* manager is Streaming: no call a send handler makes is turned away with
\* 'Already streaming a response', whatever the order of two sends, so the
\* panel never shows that error.
C39_PanelNeverCallsWhileStreaming ==
    \A h \in Turns :
        panel.send[h].pc = "called" =>
            outcome[panel.send[h].turn] # AlreadyStreamingOutcome

\* C40: model lists edited in the settings modal (add, remove, move) reach
\* the manager's settings only through Save: as long as Save was not
\* pressed, once the modal is closed again the lists of both backends and
\* currentModel in chatManager.settings are those init() loaded.
C40_CancelLeavesSettings ==
    (settings # Null /\ ~panel.modal.open /\ ~panel.modal.saved) =>
        \E s \in StoredSettings :
            /\ settings.gemini.models = s.gemini.models
            /\ settings.openai.models = s.openai.models
            /\ settings.currentModel = s.currentModel

\* C28: a backend is never changed once constructed.  The stream of a turn
\* in flight keeps the backend it started with, whatever updateSettings does
\* meanwhile; a turn starts on the backend the manager holds at that moment;
\* and once updateSettings is over (no save is pending) that is a backend
\* constructed from the settings the manager holds, so that the turn after
\* an updateSettings uses the new URL, key and model.
C28_BackendImmutable ==
    [][\A t \in Turns :
          /\ (InFlight(t) /\ gen'[t].pc \in {"awaiting", "yielded"})
                => stream'[t].backend = stream[t].backend
          /\ (Called(t) /\ gen'[t].pc \in {"awaiting", "yielded"})
                => /\ stream'[t].backend = currentBackend
                   /\ saving = <<>> => stream'[t].backend = createBackend(settings)]_vars

\* The text sendMessage makes of its input, as the source writes it.
PageContextTemplate(userMessage, pageContent) ==
    <<"[Current Page Context]\nTitle: ">> \o pageContent.title
    \o <<"\nURL: ">> \o pageContent.url
    \o <<"\n\nContent:\n">> \o pageContent.content
    \o <<"\n\n---\n\nUser Question: ">> \o userMessage

\* C29: the user Message a turn stores is what the turn sends: its content is
\* the page-context template around the user text when pageContent is given
\* and the user text itself when not, and the history handed to the backend
\* is the stored history, that Message last; so the request of a later turn
\* holds the wrapped content of an earlier one again.
C29_StoredIsSent ==
    /\ [](\A t \in Turns :
            InFlight(t) =>
                LET sent == stream[t].request.history
                    n == Len(turnStart[t].history) + 1
                    input == turnStart[t].input
                IN  /\ Len(sent) = n
                    /\ SubSeq(sent, 1, n - 1) = turnStart[t].history
                    /\ sent[n].role = "user"
                    /\ sent[n].content =
                          IF input.pageContent # Null
                          THEN PageContextTemplate(input.userMessage, input.pageContent)
                          ELSE input.userMessage)
    /\ [][\A t \in Turns :
            (Called(t) /\ gen'[t].pc \in {"awaiting", "yielded"})
                => /\ messages' = stream'[t].request.history
                   /\ turnStart'[t].history = messages]_vars

\* The second turn, sent without page content, is in flight; its request
\* holds the wrapped content the first turn stored.
C29_Witness ==
    /\ InFlight(2)
    /\ Len(messages) = 3
    /\ turnStart[2].input.pageContent = Null
    /\ stream[2].request.history[3].content = <<"q">>
    /\ stream[2].request.history[1].content = PageContextTemplate(<<"q">>, Page1)
    /\ messages[1] = stream[2].request.history[1]

====
